---------------------------- MODULE Spec2Model ----------------------------
(***************************************************************************)
(* ProPhotoRenamer: the template-driven batch rename engine of            *)
(* src/src/lib/utils/rename.ts and the archive creation of                 *)
(* src/src/lib/utils/zip.ts.                                               *)
(*                                                                         *)
(* Strings are sequences of one-character strings, so that the regular     *)
(* expressions, replacements and splits of the source are computed         *)
(* character by character.  Positions are 1-based in the sequences and     *)
(* converted to the 0-based indices of the source where the code exposes   *)
(* them (token positions, lastIndex, lastIndexOf).                         *)
(***************************************************************************)
EXTENDS Integers, Sequences, FiniteSets, TLC

VARIABLES
  lastIndex,      \* TOKEN_REGEX.lastIndex, the module-level regular expression's state
  now,            \* the wall clock read by `new Date()`, in seconds after ClockBase
  op,             \* the exported function called last ("none" before the first call)
  currentTemplate, \* the template of the session: what the calls under test are given
  argExif,        \* generateFilename: its exifData argument
  argName,        \* generateFilename: its originalFilename argument
  argOptions,     \* generateFilename / batchRename: its options argument
  ret,            \* what the last call returned
  files,          \* batchRename: the input list, a sequence of File objects (identities)
  exifDataMap,    \* batchRename: file name -> ExifData (NoExif when the name has no entry)
  index,          \* batchRename: the forEach position, 0-based
  usedFilenames,  \* batchRename: the Set of names already assigned
  results,        \* batchRename: the Map<File, RenameResult>, in insertion order
  calls,          \* batchRename: the generateFilename calls made, one record per position
  pc,             \* batchRename: "idle", "loop", "done" or "threw"
  run,            \* batchRename: which invocation on these arguments (1 or 2)
  firstResults,   \* batchRename: what the first invocation returned
  history,        \* the calls of exported functions that have returned, oldest first
  argValue,       \* sanitizeForFilename: its value argument
  zipOptions,     \* createZip*: its options argument
  unreadable,     \* the File objects whose arrayBuffer() promise rejects
  zipPath,        \* the archive function running or run last: "sync", "async", "stream"
  zpc,            \* createZip*: where the call stands ("idle" before the first call)
  zipIndex,       \* createZip*: the position of the for-of loop, 0-based
  zipInput,       \* createZipSync / createZipAsync: the zipInput object, keys in insertion order
  zipStream,      \* createZipStream: the fflate Zip object (entries added, ended or not)
  processedCount, \* createZip*: the local processedCount
  progressCalls,  \* createZip*: the calls of options.onProgress, oldest first
  settled,        \* path -> how the promise of the call on that path settled
  photos,         \* the page: filesStore.photos, oldest first
  totalProcessed, \* the usage store: totalProcessed, as localStorage and the store hold it
  inflight,       \* the page: the handleFilesAdded calls that await extraction
  conflict        \* resolveFilenameConflict called on its own: its arguments and locals

vars == <<lastIndex, now, op, currentTemplate, argExif, argName, argOptions, ret,
          files, exifDataMap, index, usedFilenames, results, calls, pc, run,
          firstResults, history, argValue, zipOptions, unreadable, zipPath, zpc,
          zipIndex, zipInput, zipStream, processedCount, progressCalls, settled,
          photos, totalProcessed, inflight, conflict>>
archiveVars == <<zipOptions, unreadable, zipPath, zpc, zipIndex, zipInput, zipStream,
                 processedCount, progressCalls, settled>>
pageVars == <<photos, totalProcessed, inflight>>
callVars == <<op, currentTemplate, argExif, argName, argOptions, ret>>
batchVars == <<files, exifDataMap, index, usedFilenames, results, calls, pc, run,
               firstResults>>

-----------------------------------------------------------------------------
(* Characters and strings                                                  *)

Digits == {"0", "1", "2", "3", "4", "5", "6", "7", "8", "9"}
LowerCase == {"a", "b", "c", "d", "e", "f", "g", "h", "i", "j", "k", "l", "m",
              "n", "o", "p", "q", "r", "s", "t", "u", "v", "w", "x", "y", "z"}
UpperCase == {"A", "B", "C", "D", "E", "F", "G", "H", "I", "J", "K", "L", "M",
              "N", "O", "P", "Q", "R", "S", "T", "U", "V", "W", "X", "Y", "Z"}
\* \w of a JavaScript regular expression
WordChars == Digits \cup LowerCase \cup UpperCase \cup {"_"}
\* \s of a JavaScript regular expression (the white space the model's inputs use)
SpaceChars == {" ", "\t", "\n"}
\* the character class [<>:"/\\|?*] of sanitizeForFilename
IllegalChars == {"<", ">", ":", "\"", "/", "\\", "|", "?", "*"}

\* const v = ...; followed by the rest of the block, which reads v
With(v, Rest(_)) == Rest(v)

\* s.substring(from) with a 1-based from
From(s, i) == SubSeq(s, i, Len(s))

\* whether pat occurs in s at the 1-based position i
OccursAt(s, pat, i) ==
  /\ i >= 1
  /\ i + Len(pat) - 1 <= Len(s)
  /\ SubSeq(s, i, i + Len(pat) - 1) = pat

\* String.prototype.includes
Includes(s, pat) == \E i \in 1..(Len(s) + 1) : OccursAt(s, pat, i)

\* String.prototype.lastIndexOf for a one-character needle: 0-based, -1 when absent
LastIndexOf(s, c) ==
  LET at == {i \in 1..Len(s) : s[i] = c}
  IN  IF at = {} THEN -1 ELSE (CHOOSE i \in at : \A j \in at : j <= i) - 1

\* The decimal digits of a natural number
DigitOf(d) ==
  CASE d = 0 -> "0" [] d = 1 -> "1" [] d = 2 -> "2" [] d = 3 -> "3" [] d = 4 -> "4"
    [] d = 5 -> "5" [] d = 6 -> "6" [] d = 7 -> "7" [] d = 8 -> "8" [] d = 9 -> "9"

RECURSIVE NatToStr(_)
NatToStr(n) == IF n < 10 THEN <<DigitOf(n)>>
               ELSE NatToStr(n \div 10) \o <<DigitOf(n % 10)>>

\* String(n) of an integer
NumToStr(n) == IF n < 0 THEN <<"-">> \o NatToStr(0 - n) ELSE NatToStr(n)

ValueOfDigit(c) ==
  CASE c = "0" -> 0 [] c = "1" -> 1 [] c = "2" -> 2 [] c = "3" -> 3 [] c = "4" -> 4
    [] c = "5" -> 5 [] c = "6" -> 6 [] c = "7" -> 7 [] c = "8" -> 8 [] c = "9" -> 9

\* parseInt(digits, 10) of a string of decimal digits
RECURSIVE ParseInt(_)
ParseInt(ds) == IF ds = <<>> THEN 0
                ELSE 10 * ParseInt(SubSeq(ds, 1, Len(ds) - 1)) + ValueOfDigit(ds[Len(ds)])

\* String.prototype.padStart(width, '0')
RECURSIVE PadStart(_, _)
PadStart(s, width) == IF Len(s) >= width THEN s ELSE PadStart(<<"0">> \o s, width)

\* s.slice(-2)
SliceLast2(s) == IF Len(s) <= 2 THEN s ELSE SubSeq(s, Len(s) - 1, Len(s))

\* Array.prototype.join(', ')
RECURSIVE JoinComma(_)
JoinComma(ss) ==
  IF ss = <<>> THEN <<>>
  ELSE IF Len(ss) = 1 THEN ss[1]
  ELSE ss[1] \o <<",", " ">> \o JoinComma(Tail(ss))

\* The replacement patterns of String.prototype.replace with a string
\* replacement: $$ is a dollar sign, $& the matched text, $` the text before
\* the match, $' the text after it; any other $ stands for itself.
RECURSIVE Expand(_, _, _, _)
Expand(rep, matched, before, after) ==
  IF rep = <<>> THEN <<>>
  ELSE IF rep[1] = "$" /\ Len(rep) >= 2 /\ rep[2] \in {"$", "&", "`", "'"}
       THEN (CASE rep[2] = "$" -> <<"$">>
               [] rep[2] = "&" -> matched
               [] rep[2] = "`" -> before
               [] rep[2] = "'" -> after)
            \o Expand(From(rep, 3), matched, before, after)
       ELSE <<rep[1]>> \o Expand(Tail(rep), matched, before, after)

\* s.replace(/pat/g, rep) for a literal pattern: every non-overlapping
\* occurrence, left to right, in one pass over the original string
RECURSIVE ReplaceFrom(_, _, _, _)
ReplaceFrom(s, pat, rep, i) ==
  IF i > Len(s) THEN <<>>
  ELSE IF OccursAt(s, pat, i)
       THEN Expand(rep, pat, SubSeq(s, 1, i - 1), From(s, i + Len(pat)))
            \o ReplaceFrom(s, pat, rep, i + Len(pat))
       ELSE <<s[i]>> \o ReplaceFrom(s, pat, rep, i + 1)

ReplaceAll(s, pat, rep) == IF Includes(s, pat) THEN ReplaceFrom(s, pat, rep, 1) ELSE s

\* The elements of a sequence
Range(s) == {s[i] : i \in 1..Len(s)}

\* How often pat occurs in s (non-overlapping, left to right)
RECURSIVE CountFrom(_, _, _)
CountFrom(s, pat, i) ==
  IF i > Len(s) THEN 0
  ELSE IF OccursAt(s, pat, i) THEN 1 + CountFrom(s, pat, i + Len(pat))
       ELSE CountFrom(s, pat, i + 1)

\* s.replace(/[class]/g, '')
Strip(s, class) == SelectSeq(s, LAMBDA c : c \notin class)

\* s.replace(/[class]+/g, by) for a one-character `by`: every maximal run of
\* characters of the class becomes one `by`
RECURSIVE CollapseRuns(_, _, _)
CollapseRuns(s, class, by) ==
  IF s = <<>> THEN <<>>
  ELSE IF s[1] \in class
       THEN IF Len(s) >= 2 /\ s[2] \in class
            THEN CollapseRuns(Tail(s), class, by)
            ELSE <<by>> \o CollapseRuns(Tail(s), class, by)
       ELSE <<s[1]>> \o CollapseRuns(Tail(s), class, by)

\* String.prototype.trim
RECURSIVE TrimStart(_)
TrimStart(s) == IF s # <<>> /\ s[1] \in SpaceChars THEN TrimStart(Tail(s)) ELSE s
RECURSIVE TrimEnd(_)
TrimEnd(s) == IF s # <<>> /\ s[Len(s)] \in SpaceChars
              THEN TrimEnd(SubSeq(s, 1, Len(s) - 1)) ELSE s
Trim(s) == TrimEnd(TrimStart(s))

-----------------------------------------------------------------------------
(* The token catalogue                                                     *)

\* The names of TEMPLATE_TOKENS, without their braces
N_YYYY == <<"Y", "Y", "Y", "Y">>
N_YY == <<"Y", "Y">>
N_MM == <<"M", "M">>
N_DD == <<"D", "D">>
N_HH == <<"H", "H">>
N_mm == <<"m", "m">>
N_ss == <<"s", "s">>
N_date == <<"d", "a", "t", "e">>
N_datetime == <<"d", "a", "t", "e", "t", "i", "m", "e">>
N_timestamp == <<"t", "i", "m", "e", "s", "t", "a", "m", "p">>
N_make == <<"m", "a", "k", "e">>
N_model == <<"m", "o", "d", "e", "l">>
N_lens == <<"l", "e", "n", "s">>
N_iso == <<"i", "s", "o">>
N_aperture == <<"a", "p", "e", "r", "t", "u", "r", "e">>
N_shutter == <<"s", "h", "u", "t", "t", "e", "r">>
N_focal == <<"f", "o", "c", "a", "l">>
N_width == <<"w", "i", "d", "t", "h">>
N_height == <<"h", "e", "i", "g", "h", "t">>
N_dimensions == <<"d", "i", "m", "e", "n", "s", "i", "o", "n", "s">>
N_orientation == <<"o", "r", "i", "e", "n", "t", "a", "t", "i", "o", "n">>
N_lat == <<"l", "a", "t">>
N_lng == <<"l", "n", "g">>
N_gps == <<"g", "p", "s">>
N_counter == <<"c", "o", "u", "n", "t", "e", "r">>
N_counter5 == <<"c", "o", "u", "n", "t", "e", "r", ":", "5">>
N_original == <<"o", "r", "i", "g", "i", "n", "a", "l">>
N_ext == <<"e", "x", "t">>
N_custom == <<"c", "u", "s", "t", "o", "m">>

\* `{${name}}`
Braced(name) == <<"{">> \o name \o <<"}">>

\* The keys of TEMPLATE_TOKENS
TEMPLATE_TOKENS ==
  {Braced(n) : n \in
    {N_YYYY, N_YY, N_MM, N_DD, N_HH, N_mm, N_ss, N_date,
     N_datetime, N_timestamp, N_make, N_model, N_lens, N_iso,
     N_aperture, N_shutter, N_focal, N_width, N_height,
     N_dimensions, N_orientation, N_lat, N_lng, N_gps, N_counter,
     N_counter5, N_original, N_ext, N_custom}}

-----------------------------------------------------------------------------
(* TOKEN_REGEX = /\{([^}]+)\}/g and parseTemplate                          *)

\* The 1-based position of the "}" that ends a match of \{([^}]+)\} starting
\* at the 1-based position p, or 0 when no match starts at p.  [^}]+ takes
\* every character up to the first "}", and needs at least one.
TokenEnd(s, p) ==
  IF p < 1 \/ p > Len(s) \/ s[p] # "{" THEN 0
  ELSE LET closing == {q \in (p + 1)..Len(s) : s[q] = "}"}
       IN  IF closing = {} THEN 0
           ELSE LET q == CHOOSE x \in closing : \A y \in closing : x <= y
                IN  IF q >= p + 2 THEN q ELSE 0

\* TOKEN_REGEX.exec(s) with TOKEN_REGEX.lastIndex = li (0-based): the leftmost
\* match at or after li.  A failed search sets lastIndex to 0; a match sets it
\* to the 0-based index after the match.
TokenExec(s, li) ==
  LET starts == {p \in (li + 1)..Len(s) : TokenEnd(s, p) # 0}
  IN  IF li > Len(s) \/ starts = {}
      THEN [found |-> FALSE, index |-> 0, full |-> <<>>, group |-> <<>>,
            lastIndex |-> 0]
      ELSE LET p == CHOOSE x \in starts : \A y \in starts : x <= y
               q == TokenEnd(s, p)
           IN  [found |-> TRUE, index |-> p - 1, full |-> SubSeq(s, p, q),
                group |-> SubSeq(s, p + 1, q - 1), lastIndex |-> q]

\* /^counter:\d+$/.test(token)
IsCounterWithPadding(token) ==
  /\ Len(token) > Len(N_counter) + 1
  /\ SubSeq(token, 1, Len(N_counter)) = N_counter
  /\ token[Len(N_counter) + 1] = ":"
  /\ \A i \in (Len(N_counter) + 2)..Len(token) : token[i] \in Digits

isValidToken(token) ==
  \/ Braced(token) \in TEMPLATE_TOKENS
  \/ IsCounterWithPadding(token)

\* The while loop of parseTemplate: exec until it fails, from lastIndex li.
\* Yields the tokens and the lastIndex the loop leaves behind.
RECURSIVE ExecLoop(_, _, _)
ExecLoop(template, li, tokens) ==
  LET m == TokenExec(template, li)
  IN  IF ~m.found THEN [tokens |-> tokens, lastIndex |-> m.lastIndex]
      ELSE ExecLoop(template, m.lastIndex,
                    Append(tokens, [token |-> m.group, fullToken |-> m.full,
                                    position |-> m.index,
                                    isValid |-> isValidToken(m.group)]))

\* The mutant of parseTemplate: no reset of lastIndex, and `if` for `while`
\* (one exec, which leaves lastIndex after the first token)
parseTemplateNoReset(template, li) ==
  LET m == TokenExec(template, li)
  IN  IF ~m.found THEN [tokens |-> <<>>, lastIndex |-> m.lastIndex]
      ELSE [tokens |-> <<[token |-> m.group, fullToken |-> m.full,
                          position |-> m.index,
                          isValid |-> isValidToken(m.group)]>>,
            lastIndex |-> m.lastIndex]

\* parseTemplate(template), called when TOKEN_REGEX.lastIndex = li: the reset
\* to 0, then the loop
parseTemplate(template, li) == ExecLoop(template, 0, <<>>)

\* s.match(TOKEN_REGEX): lastIndex is set to 0, then every match is collected
\* (null when there is none, modelled as the empty sequence); lastIndex is 0
\* afterwards
RECURSIVE MatchAllFrom(_, _)
MatchAllFrom(s, li) ==
  LET m == TokenExec(s, li)
  IN  IF ~m.found THEN <<>> ELSE <<m.full>> \o MatchAllFrom(s, m.lastIndex)

MatchTokens(s) == MatchAllFrom(s, 0)

\* s.replace(TOKEN_REGEX, ''): every match removed, in one pass
RECURSIVE RemoveTokensFrom(_, _)
RemoveTokensFrom(s, li) ==
  LET m == TokenExec(s, li)
  IN  IF ~m.found THEN From(s, li + 1)
      ELSE SubSeq(s, li + 1, m.index) \o RemoveTokensFrom(s, m.lastIndex)

RemoveTokens(s) == RemoveTokensFrom(s, 0)

-----------------------------------------------------------------------------
(* Values: Date, ExifData, RenameOptions, RenameResult                     *)

\* A Date is held by what its getters return: getFullYear, getMonth (0-based),
\* getDate, getHours, getMinutes, getSeconds, and the whole seconds of getTime
\* (epochSeconds = Math.floor(getTime() / 1000)).
\* `new Date()` when the clock shows t: the clock starts at 2025-10-11 14:25:30
\* and the model's runs stay within that minute.
NewDate(t) ==
  [year |-> 2025, month |-> 9, date |-> 11, hours |-> 14, minutes |-> 25,
   seconds |-> 30 + t, epochSeconds |-> 1760192730 + t]

\* ExifData | null.  isNull: the record itself is null.  present: the fields
\* that are neither null nor undefined ("lat" and "lng" are the fields of gps
\* and count only when "gps" is present too).  Numbers are integers, but for
\* exposureTime, a number or a string: [type, num, den, nan] is the number
\* num/den, or the string that parseFloat turns into num/den (NaN when nan).
ExifFields == {"dateTaken", "make", "model", "lensModel", "iso", "fNumber",
               "exposureTime", "focalLength", "width", "height", "orientation",
               "gps", "lat", "lng"}

\* exifData?.field, as a test: the field is there (not null, not undefined)
Has(exif, f) ==
  /\ ~exif.isNull
  /\ f \in exif.present
  /\ (f \in {"lat", "lng"} => "gps" \in exif.present)

\* The truth value JavaScript gives exifData?.field in a condition
Truthy(exif, f) ==
  /\ Has(exif, f)
  /\ CASE f \in {"make", "model", "lensModel"} -> exif[f] # <<>>
       [] f = "exposureTime" ->
            IF exif[f].type = "string" THEN exif[f].text # <<>>
            ELSE ~exif[f].nan /\ exif[f].num # 0
       [] f \in {"dateTaken", "gps"} -> TRUE
       [] OTHER -> exif[f] # 0

\* A photo's metadata with every field set: 2024-03-05 07:08:09, Canon,
\* "EOS R5", "RF-50", ISO 100, f/8, 1/250 s, 50 mm, 640x480, orientation 6,
\* latitude 12, longitude -7
FullExif ==
  [isNull |-> FALSE, present |-> ExifFields,
   dateTaken |-> [year |-> 2024, month |-> 2, date |-> 5, hours |-> 7,
                  minutes |-> 8, seconds |-> 9, epochSeconds |-> 1709622489],
   make |-> <<"C", "a", "n", "o", "n">>,
   model |-> <<"E", "O", "S", " ", "R", "5">>,
   lensModel |-> <<"R", "F", "-", "5", "0">>,
   iso |-> 100, fNumber |-> 8,
   exposureTime |-> [type |-> "number", nan |-> FALSE, num |-> 4, den |-> 1000,
                     text |-> <<>>],
   focalLength |-> 50, width |-> 640, height |-> 480, orientation |-> 6,
   lat |-> 12, lng |-> -7]

\* exifData = null
NullExif == [FullExif EXCEPT !.isNull = TRUE, !.present = {}]

\* The metadata with only the fields of `present` set
ExifWith(present) == [FullExif EXCEPT !.present = present]

\* A warning is its fixed text and, for "Unresolved tokens: ", the joined list
Warning(text) == [text |-> text, list |-> <<>>]

\* The working state of generateFilename: the filename built so far, the
\* warnings pushed, and whether an exception has been thrown
Working(s, w) == [s |-> s, warnings |-> w, threw |-> FALSE]

-----------------------------------------------------------------------------
(* The passes of generateFilename                                          *)

\* String(n).padStart(2, '0')
Pad2(n) == PadStart(NumToStr(n), 2)

replaceDateTokens(template, date) ==
  LET year == NumToStr(date.year)
      month == Pad2(date.month + 1)
      day == Pad2(date.date)
      hours == Pad2(date.hours)
      minutes == Pad2(date.minutes)
      seconds == Pad2(date.seconds)
      \* Math.floor(date.getTime() / 1000)
      stamp == date.epochSeconds
      s1 == ReplaceAll(template, Braced(N_YYYY), year)
      s2 == ReplaceAll(s1, Braced(N_YY), SliceLast2(year))
      s3 == ReplaceAll(s2, Braced(N_MM), month)
      s4 == ReplaceAll(s3, Braced(N_DD), day)
      s5 == ReplaceAll(s4, Braced(N_HH), hours)
      s6 == ReplaceAll(s5, Braced(N_mm), minutes)
      s7 == ReplaceAll(s6, Braced(N_ss), seconds)
      s8 == ReplaceAll(s7, Braced(N_date), year \o month \o day)
      s9 == ReplaceAll(s8, Braced(N_datetime),
                       year \o month \o day \o <<"_">> \o hours \o minutes \o seconds)
  IN  ReplaceAll(s9, Braced(N_timestamp), NumToStr(stamp))

\* value.replace(/[^\w\s-]/g, '').replace(/\s+/g, '_').trim()
sanitizeToken(value) ==
  Trim(CollapseRuns(SelectSeq(value, LAMBDA c : c \in WordChars \cup SpaceChars \cup {"-"}),
                    SpaceChars, "_"))
\* parseFloat(text) of an optional sign, digits and an optional fraction:
\* the number num/den, or NaN when no digit leads.  (Exponents and Infinity
\* are not among the model's inputs.)
RECURSIVE DigitRun(_)
DigitRun(s) == IF s # <<>> /\ s[1] \in Digits THEN <<s[1]>> \o DigitRun(Tail(s)) ELSE <<>>

RECURSIVE Pow10(_)
Pow10(k) == IF k = 0 THEN 1 ELSE 10 * Pow10(k - 1)

parseFloat(text) ==
  LET t == TrimStart(text)
      neg == t # <<>> /\ t[1] = "-"
      u == IF t # <<>> /\ t[1] \in {"-", "+"} THEN Tail(t) ELSE t
      whole == DigitRun(u)
      rest == From(u, Len(whole) + 1)
      frac == IF rest # <<>> /\ rest[1] = "." THEN DigitRun(Tail(rest)) ELSE <<>>
      mag == ParseInt(whole \o frac)
  IN  IF whole = <<>> /\ frac = <<>>
      THEN [nan |-> TRUE, num |-> 0, den |-> 1]
      ELSE [nan |-> FALSE, num |-> IF neg THEN 0 - mag ELSE mag, den |-> Pow10(Len(frac))]

\* formatShutterSpeed(speed) for a number speed = x.num / x.den (NaN when x.nan).
\* Numbers of at least 1 are whole in the model's inputs.
formatShutterSpeed(x) ==
  IF x.nan \/ x.num = 0 THEN <<>>                      \* !speed
  ELSE IF x.num <= 0 THEN <<>>                         \* isNaN(numSpeed) || numSpeed <= 0
  ELSE IF x.num >= x.den
       THEN NumToStr(x.num \div x.den) \o <<"s">>      \* `${numSpeed}s`
       ELSE \* Math.round(1 / numSpeed) = floor(den / num + 1/2)
            <<"1", "/">> \o NumToStr((2 * x.den + x.num) \div (2 * x.num)) \o <<"s">>

\* The argument replaceCameraTokens hands to formatShutterSpeed
ShutterArgument(e) ==
  IF e.type = "number" THEN [nan |-> e.nan, num |-> e.num, den |-> e.den]
  ELSE IF e.type = "string"
       THEN With(parseFloat(e.text),
                 LAMBDA f : IF f.nan \/ f.num = 0 THEN [nan |-> FALSE, num |-> 0, den |-> 1]
                            ELSE f)
       ELSE [nan |-> FALSE, num |-> 0, den |-> 1]

\* n.toFixed(6) of an integer
ToFixed6(n) == NumToStr(n) \o <<".", "0", "0", "0", "0", "0", "0">>

\* The mutant of TokenPass: the warning is pushed once for each occurrence of
\* the token
TokenPassWarnEach(st, name, available, value, text) ==
  IF st.threw \/ ~Includes(st.s, Braced(name)) THEN st
  ELSE IF available
       THEN [st EXCEPT !.s = ReplaceAll(st.s, Braced(name), value)]
       ELSE [st EXCEPT !.warnings = @ \o [i \in 1..CountFrom(st.s, Braced(name), 1) |->
                                            Warning(text)],
                       !.s = ReplaceAll(st.s, Braced(name), <<>>)]

\* The block every metadata-backed token has:
\*   if (result.includes('{name}')) {
\*     if (<available>) result = result.replace(/\{name\}/g, <value>);
\*     else { warnings.push(<text>); result = result.replace(/\{name\}/g, ''); } }
TokenPass(st, name, available, value, text) ==
  IF st.threw \/ ~Includes(st.s, Braced(name)) THEN st
  ELSE IF available
       THEN [st EXCEPT !.s = ReplaceAll(st.s, Braced(name), value)]
       ELSE [st EXCEPT !.warnings = Append(@, Warning(text)),
                       !.s = ReplaceAll(st.s, Braced(name), <<>>)]

\* The mutant of replaceCameraTokens: `exifData.make` for `exifData?.make`, a
\* TypeError when exifData is null and the template holds {make}
replaceCameraTokensUnguarded(st, exif) ==
  IF exif.isNull /\ Includes(st.s, Braced(N_make)) THEN [st EXCEPT !.threw = TRUE]
  ELSE
  LET a == TokenPass(st, N_make, Truthy(exif, "make"), sanitizeToken(exif.make),
                     "Camera make not available in EXIF data")
      b == TokenPass(a, N_model, Truthy(exif, "model"), sanitizeToken(exif.model),
                     "Camera model not available in EXIF data")
      c == TokenPass(b, N_lens, Truthy(exif, "lensModel"), sanitizeToken(exif.lensModel),
                     "Lens model not available in EXIF data")
      d == TokenPass(c, N_iso, Truthy(exif, "iso"), <<"I", "S", "O">> \o NumToStr(exif.iso),
                     "ISO not available in EXIF data")
      e == TokenPass(d, N_aperture, Truthy(exif, "fNumber"),
                     <<"f">> \o NumToStr(exif.fNumber),
                     "Aperture not available in EXIF data")
      f == TokenPass(e, N_shutter, Truthy(exif, "exposureTime"),
                     formatShutterSpeed(ShutterArgument(exif.exposureTime)),
                     "Shutter speed not available in EXIF data")
  IN  TokenPass(f, N_focal, Truthy(exif, "focalLength"),
                NumToStr(exif.focalLength) \o <<"m", "m">>,
                "Focal length not available in EXIF data")

replaceCameraTokens(st, exif) ==
  LET a == TokenPass(st, N_make, Truthy(exif, "make"), sanitizeToken(exif.make),
                     "Camera make not available in EXIF data")
      b == TokenPass(a, N_model, Truthy(exif, "model"), sanitizeToken(exif.model),
                     "Camera model not available in EXIF data")
      c == TokenPass(b, N_lens, Truthy(exif, "lensModel"), sanitizeToken(exif.lensModel),
                     "Lens model not available in EXIF data")
      d == TokenPass(c, N_iso, Truthy(exif, "iso"), <<"I", "S", "O">> \o NumToStr(exif.iso),
                     "ISO not available in EXIF data")
      e == TokenPass(d, N_aperture, Truthy(exif, "fNumber"),
                     <<"f">> \o NumToStr(exif.fNumber),
                     "Aperture not available in EXIF data")
      f == TokenPass(e, N_shutter, Truthy(exif, "exposureTime"),
                     formatShutterSpeed(ShutterArgument(exif.exposureTime)),
                     "Shutter speed not available in EXIF data")
  IN  TokenPass(f, N_focal, Truthy(exif, "focalLength"),
                NumToStr(exif.focalLength) \o <<"m", "m">>,
                "Focal length not available in EXIF data")

\* The mutant of replaceImageTokens: {orientation} is treated like the other
\* image tokens, with a warning and an empty replacement when it is missing
replaceImageTokensOrientationWarns(st, exif) ==
  LET a == TokenPass(st, N_width, Truthy(exif, "width"), NumToStr(exif.width),
                     "Image width not available")
      b == TokenPass(a, N_height, Truthy(exif, "height"), NumToStr(exif.height),
                     "Image height not available")
      c == TokenPass(b, N_dimensions, Truthy(exif, "width") /\ Truthy(exif, "height"),
                     NumToStr(exif.width) \o <<"x">> \o NumToStr(exif.height),
                     "Image dimensions not available")
  IN  TokenPass(c, N_orientation, Truthy(exif, "orientation"), NumToStr(exif.orientation),
                "Image orientation not available")

replaceImageTokens(st, exif) ==
  LET a == TokenPass(st, N_width, Truthy(exif, "width"), NumToStr(exif.width),
                     "Image width not available")
      b == TokenPass(a, N_height, Truthy(exif, "height"), NumToStr(exif.height),
                     "Image height not available")
  IN  With(TokenPass(b, N_dimensions, Truthy(exif, "width") /\ Truthy(exif, "height"),
                     NumToStr(exif.width) \o <<"x">> \o NumToStr(exif.height),
                     "Image dimensions not available"),
           \* orientation: no warning, the default is '1'
           LAMBDA c :
             IF c.threw \/ ~Includes(c.s, Braced(N_orientation)) THEN c
             ELSE IF Truthy(exif, "orientation")
                  THEN [c EXCEPT !.s = ReplaceAll(c.s, Braced(N_orientation),
                                                  NumToStr(exif.orientation))]
                  ELSE [c EXCEPT !.s = ReplaceAll(c.s, Braced(N_orientation), <<"1">>)])

replaceGPSTokens(st, exif) ==
  LET a == TokenPass(st, N_lat, Truthy(exif, "lat"), ToFixed6(exif.lat),
                     "GPS latitude not available")
      b == TokenPass(a, N_lng, Truthy(exif, "lng"), ToFixed6(exif.lng),
                     "GPS longitude not available")
  IN  TokenPass(b, N_gps, Truthy(exif, "lat") /\ Truthy(exif, "lng"),
                ToFixed6(exif.lat) \o <<"_">> \o ToFixed6(exif.lng),
                "GPS coordinates not available")

\* result.replace(/\{counter:(\d+)\}/g, (_, padding) =>
\*   String(counter).padStart(parseInt(padding, 10), '0'))
RECURSIVE ReplaceCounterPadded(_, _, _)
ReplaceCounterPadded(s, counter, i) ==
  IF i > Len(s) THEN <<>>
  ELSE LET open == <<"{">> \o N_counter \o <<":">>
           digits == DigitRun(From(s, i + Len(open)))
           close == i + Len(open) + Len(digits)
       IN  IF /\ OccursAt(s, open, i)
              /\ digits # <<>>
              /\ close <= Len(s)
              /\ s[close] = "}"
           THEN PadStart(NumToStr(counter), ParseInt(digits))
                \o ReplaceCounterPadded(s, counter, close + 1)
           ELSE <<s[i]>> \o ReplaceCounterPadded(s, counter, i + 1)

\* The mutant of replaceCounterTokens: without the pass for {counter:N}
replaceCounterTokensDefaultOnly(template, counter, defaultPadding) ==
  ReplaceAll(template, Braced(N_counter), PadStart(NumToStr(counter), defaultPadding))

replaceCounterTokens(template, counter, defaultPadding) ==
  ReplaceAll(ReplaceCounterPadded(template, counter, 1), Braced(N_counter),
             PadStart(NumToStr(counter), defaultPadding))

\* The mutant of sanitizeForFilename: the underscore runs are collapsed before
\* the white space is replaced
sanitizeForFilenameUnderscoresFirst(value) ==
  CollapseRuns(CollapseRuns(Strip(value, IllegalChars), {"_"}, "_"), SpaceChars, "_")

\* String(value).replace(/[<>:"/\\|?*]/g, '').replace(/\s+/g, '_').replace(/_{2,}/g, '_')
sanitizeForFilename(value) ==
  CollapseRuns(CollapseRuns(Strip(value, IllegalChars), SpaceChars, "_"), {"_"}, "_")

\* The mutant of parseFilename: indexOf for lastIndexOf, the split is at the
\* first dot
parseFilenameAtFirstDot(filename) ==
  LET firstDotIndex == IF "." \in Range(filename)
                       THEN (CHOOSE i \in 1..Len(filename) :
                               filename[i] = "." /\ \A j \in 1..(i - 1) : filename[j] # ".") - 1
                       ELSE -1
  IN  IF firstDotIndex = -1 \/ firstDotIndex = 0
      THEN [name |-> filename, ext |-> <<>>]
      ELSE [name |-> SubSeq(filename, 1, firstDotIndex),
            ext |-> From(filename, firstDotIndex + 2)]

parseFilename(filename) ==
  LET lastDotIndex == LastIndexOf(filename, ".")
  IN  IF lastDotIndex = -1 \/ lastDotIndex = 0
      THEN [name |-> filename, ext |-> <<>>]
      ELSE [name |-> SubSeq(filename, 1, lastDotIndex),
            ext |-> From(filename, lastDotIndex + 2)]

\* The mutant of stripUnresolved: one warning for each token left
stripUnresolvedEach(st) ==
  LET unresolvedTokens == MatchTokens(st.s)
  IN  IF st.threw \/ Len(unresolvedTokens) = 0 THEN st
      ELSE [st EXCEPT
              !.warnings = @ \o [i \in 1..Len(unresolvedTokens) |->
                                   [text |-> "Unresolved tokens: ",
                                    list |-> unresolvedTokens[i]]],
              !.s = RemoveTokens(st.s)]

\* const unresolvedTokens = filename.match(TOKEN_REGEX);
\* if (unresolvedTokens && unresolvedTokens.length > 0) { warn; strip }
stripUnresolved(st) ==
  LET unresolvedTokens == MatchTokens(st.s)
  IN  IF st.threw \/ Len(unresolvedTokens) = 0 THEN st
      ELSE [st EXCEPT
              !.warnings = Append(@, [text |-> "Unresolved tokens: ",
                                      list |-> JoinComma(unresolvedTokens)]),
              !.s = RemoveTokens(st.s)]

\* options.key, or the default of the destructuring when it is undefined
Opt(options, key, default) == IF key \in options.has THEN options[key] ELSE default

\* The working string and warnings of generateFilename before the check for
\* unresolved tokens (lines 105 to 124); clock is what `new Date()` reads
resolveTokens(template, exif, originalFilename, options, clock) ==
  LET counter == Opt(options, "counter", 1)
      counterPadding == Opt(options, "counterPadding", 3)
      customText == Opt(options, "customText", <<>>)
      fallbackDate == Opt(options, "fallbackDate", NewDate(clock))
      parsed == parseFilename(originalFilename)
      date == IF Truthy(exif, "dateTaken") THEN exif.dateTaken ELSE fallbackDate
      a == Working(replaceDateTokens(template, date), <<>>)
      b == replaceCameraTokens(a, exif)
      c == replaceImageTokens(b, exif)
  IN  With(replaceGPSTokens(c, exif),
           LAMBDA d :
             IF d.threw THEN d
             ELSE LET e == replaceCounterTokens(d.s, counter, counterPadding)
                      f == ReplaceAll(e, Braced(N_original), parsed.name)
                      g == ReplaceAll(f, Braced(N_ext), parsed.ext)
                  IN  [d EXCEPT !.s = ReplaceAll(g, Braced(N_custom), customText)])

\* generateFilename: the RenameResult, with warnings [] for undefined, and
\* threw when the call ends in an exception instead of returning
generateFilename(template, exif, originalFilename, options, clock) ==
  LET preserveExtension == Opt(options, "preserveExtension", TRUE)
      originalExt == parseFilename(originalFilename).ext
  IN  With(stripUnresolved(resolveTokens(template, exif, originalFilename, options, clock)),
           LAMBDA st :
             IF st.threw
             THEN [filename |-> <<>>, success |-> FALSE, warnings |-> <<>>, threw |-> TRUE]
             ELSE [filename |-> IF preserveExtension /\ originalExt # <<>>
                                THEN sanitizeForFilename(st.s) \o <<".">> \o originalExt
                                ELSE sanitizeForFilename(st.s),
                   success |-> TRUE,
                   warnings |-> st.warnings,
                   threw |-> FALSE])

\* TOKEN_REGEX.lastIndex after filename.match(TOKEN_REGEX): match sets it to 0
\* and runs exec until it fails
LastIndexAfterMatch(s) == ExecLoop(s, 0, <<>>).lastIndex

-----------------------------------------------------------------------------
(* batchRename                                                             *)

\* A File is an object: id is its identity, name its name.  Two File objects
\* may carry the same name; the same object may stand twice in a list.

\* The mutant of Candidate: the suffix does not take the counter, `_1` always
CandidateWithoutCounter(name, ext, counter) ==
  IF ext # <<>> THEN name \o <<"_", "1">> \o <<".">> \o ext ELSE name \o <<"_", "1">>

\* const suffix = `_${counter}`;
\* newFilename = ext ? `${name}${suffix}.${ext}` : `${name}${suffix}`
Candidate(name, ext, counter) ==
  IF ext # <<>> THEN name \o <<"_">> \o NumToStr(counter) \o <<".">> \o ext
  ELSE name \o <<"_">> \o NumToStr(counter)

\* The do-while loop of resolveFilenameConflict: the first of name_1, name_2,
\* ... (with .ext when there is one) that usedFilenames does not hold
RECURSIVE FirstUnused(_, _, _, _)
FirstUnused(name, ext, counter, used) ==
  LET newFilename == Candidate(name, ext, counter)
  IN  IF newFilename \in used
      THEN FirstUnused(name, ext, counter + 1, used)
      ELSE newFilename

\* The mutant of resolveFilenameConflict: the suffix _1 without the loop
resolveFilenameConflictOnce(result, used) ==
  LET parsed == parseFilename(result.filename)
  IN  [result EXCEPT
         !.filename = IF parsed.ext # <<>>
                      THEN parsed.name \o <<"_", "1">> \o <<".">> \o parsed.ext
                      ELSE parsed.name \o <<"_", "1">>,
         !.warnings = Append(@, Warning("Filename conflict resolved with numeric suffix"))]

resolveFilenameConflict(result, used) ==
  LET parsed == parseFilename(result.filename)
  IN  [result EXCEPT
         !.filename = FirstUnused(parsed.name, parsed.ext, 1, used),
         !.warnings = Append(@, Warning("Filename conflict resolved with numeric suffix"))]

\* The mutant of MapSet: results is an array the result is pushed to
MapSetPush(map, key, value) == Append(map, [key |-> key, value |-> value])

\* Map.prototype.set: the value of a key the map holds is replaced where it
\* stands; a new key is added at the end
MapSet(map, key, value) ==
  IF \E i \in 1..Len(map) : map[i].key = key
  THEN [i \in 1..Len(map) |->
          IF map[i].key = key THEN [key |-> key, value |-> value] ELSE map[i]]
  ELSE Append(map, [key |-> key, value |-> value])

\* exifDataMap.get(key) || null: the value of the key, null when the map does
\* not hold it
MapGetOrNull(map, key, null) ==
  IF \E i \in 1..Len(map) : map[i].key = key
  THEN map[CHOOSE i \in 1..Len(map) : map[i].key = key].value
  ELSE null

\* { ...options, counter: (options.startCounter || 1) + index }
RenameOptionsFor(options, i) ==
  [options EXCEPT !.has = @ \cup {"counter"},
     !.counter = (IF "startCounter" \in options.has /\ options.startCounter # 0
                  THEN options.startCounter ELSE 1) + i]

\* The callback of files.forEach, on the loop's state st = [usedFilenames,
\* results, calls, threw].  calls notes each generateFilename call: position,
\* file, the counter passed, the filename it returned (candidate), whether
\* that was already assigned (conflict), the names assigned before (used), and
\* the filename and warnings of the result put into the Map.
forEachCallback(st, file, i, tpl, exifMap, options, clock) ==
  LET exifData == MapGetOrNull(exifMap, file.name, NullExif)
      renameOptions == RenameOptionsFor(options, i)
  IN  With(generateFilename(tpl, exifData, file.name, renameOptions, clock),
        LAMBDA first :
          IF first.threw THEN [st EXCEPT !.threw = TRUE]
          ELSE
          With(IF first.filename \in st.usedFilenames
               THEN resolveFilenameConflict(first, st.usedFilenames)
               ELSE first,
            LAMBDA result :
              [usedFilenames |-> st.usedFilenames \cup {result.filename},
               results |-> MapSet(st.results, file,
                                  [filename |-> result.filename,
                                   success |-> result.success,
                                   warnings |-> result.warnings]),
               calls |-> Append(st.calls, [position |-> i, file |-> file,
                                           counter |-> renameOptions.counter,
                                           candidate |-> first.filename,
                                           conflict |-> first.filename \in st.usedFilenames,
                                           used |-> st.usedFilenames,
                                           filename |-> result.filename,
                                           warnings |-> result.warnings]),
               threw |-> FALSE]))

\* batchRename as one call: forEach from position i on
RECURSIVE ForEachFrom(_, _, _, _, _, _, _)
ForEachFrom(st, fs, i, tpl, exifMap, options, clock) ==
  IF st.threw \/ i >= Len(fs) THEN st
  ELSE ForEachFrom(forEachCallback(st, fs[i + 1], i, tpl, exifMap, options, clock),
                   fs, i + 1, tpl, exifMap, options, clock)

EmptyBatch == [usedFilenames |-> {}, results |-> <<>>, calls |-> <<>>, threw |-> FALSE]

batchRename(fs, tpl, exifMap, options, clock) ==
  ForEachFrom(EmptyBatch, fs, 0, tpl, exifMap, options, clock)

\* validateTemplate(template), called when TOKEN_REGEX.lastIndex = li
validateTemplate(tpl, li) ==
  IF Len(tpl) = 0 \/ Len(Trim(tpl)) = 0
  THEN [isValid |-> FALSE,
        errors |-> <<[text |-> "Template cannot be empty", list |-> <<>>]>>,
        warnings |-> <<>>, lastIndex |-> li]
  ELSE With(parseTemplate(tpl, li),
         LAMBDA parsed :
           With(SelectSeq(parsed.tokens, LAMBDA t : ~t.isValid),
             LAMBDA invalidTokens :
               [isValid |-> Len(invalidTokens) = 0,
                errors |-> [i \in 1..Len(invalidTokens) |->
                              [text |-> "Invalid token: ",
                               list |-> invalidTokens[i].fullToken]],
                warnings |->
                  (IF Len(parsed.tokens) = 0
                   THEN <<Warning("Template has no dynamic tokens")>>
                   ELSE <<>>)
                  \o (IF \E c \in Range(RemoveTokens(tpl)) : c \in IllegalChars
                      THEN <<Warning("Template contains characters that may be invalid in filenames")>>
                      ELSE <<>>),
                lastIndex |-> parsed.lastIndex]))

-----------------------------------------------------------------------------
(* Inputs                                                                  *)

\* How often a template of the specification of generateFilename repeats a piece
MaxRepeat == 2
\* How many calls a session of the specification of the parser makes
MaxHistory == 2
\* The longest list of files handed to batchRename
MaxFiles == 3
\* How far the clock advances
MaxClock == 2

\* Every sequence of at most n elements of S
RECURSIVE ListsUpTo(_, _)
ListsUpTo(S, n) ==
  IF n = 0 THEN {<<>>}
  ELSE LET shorter == ListsUpTo(S, n - 1)
       IN  shorter \cup {Append(l, x) : l \in shorter, x \in S}

\* Token names the catalogue does not hold
N_unknown == <<"u", "n", "k", "n", "o", "w", "n">>
N_Make == <<"M", "a", "k", "e">>
N_makeSpaced == <<" ", "m", "a", "k", "e", " ">>
N_yyyy == <<"y", "y", "y", "y">>
N_counter0 == N_counter \o <<":", "0">>
N_counter05 == N_counter \o <<":", "0", "5">>
N_counter12 == N_counter \o <<":", "1", "2">>
N_counterNone == N_counter \o <<":">>
N_counterNeg == N_counter \o <<":", "-", "1">>
N_counterX == N_counter \o <<":", "5", "x">>
N_Counter5 == <<"C">> \o Tail(N_counter) \o <<":", "5">>

\* The metadata-backed tokens that warn when their data is missing, each with
\* the metadata fields it needs and its warning
MetadataTokens ==
  { [name |-> N_make, needs |-> {"make"},
     text |-> "Camera make not available in EXIF data"],
    [name |-> N_model, needs |-> {"model"},
     text |-> "Camera model not available in EXIF data"],
    [name |-> N_lens, needs |-> {"lensModel"},
     text |-> "Lens model not available in EXIF data"],
    [name |-> N_iso, needs |-> {"iso"}, text |-> "ISO not available in EXIF data"],
    [name |-> N_aperture, needs |-> {"fNumber"},
     text |-> "Aperture not available in EXIF data"],
    [name |-> N_shutter, needs |-> {"exposureTime"},
     text |-> "Shutter speed not available in EXIF data"],
    [name |-> N_focal, needs |-> {"focalLength"},
     text |-> "Focal length not available in EXIF data"],
    [name |-> N_width, needs |-> {"width"}, text |-> "Image width not available"],
    [name |-> N_height, needs |-> {"height"}, text |-> "Image height not available"],
    [name |-> N_dimensions, needs |-> {"width", "height"},
     text |-> "Image dimensions not available"],
    [name |-> N_lat, needs |-> {"lat"}, text |-> "GPS latitude not available"],
    [name |-> N_lng, needs |-> {"lng"}, text |-> "GPS longitude not available"],
    [name |-> N_gps, needs |-> {"lat", "lng"},
     text |-> "GPS coordinates not available"] }

\* Metadata records such that every two fields occur in all four
\* combinations of set and missing: the fields are numbered, and one record
\* holds the fields whose number has bit b equal to v
FieldNumber(f) ==
  CASE f = "dateTaken" -> 0 [] f = "make" -> 1 [] f = "model" -> 2
    [] f = "lensModel" -> 3 [] f = "iso" -> 4 [] f = "fNumber" -> 5
    [] f = "exposureTime" -> 6 [] f = "focalLength" -> 7 [] f = "width" -> 8
    [] f = "height" -> 9 [] f = "orientation" -> 10 [] f = "lat" -> 11
    [] f = "lng" -> 12 [] f = "gps" -> 13

Pow2(b) == CASE b = 0 -> 1 [] b = 1 -> 2 [] b = 2 -> 4 [] b = 3 -> 8

\* A photo taken on the equator: every field set, latitude 0
EquatorExif == [FullExif EXCEPT !.lat = 0]

GenExifs ==
  {NullExif, FullExif, EquatorExif, ExifWith({}), ExifWith(ExifFields \ {"gps"})}
  \cup {ExifWith({f \in ExifFields \ {"gps"} : (FieldNumber(f) \div Pow2(b)) % 2 = v}
                 \cup {"gps"}) : b \in 0..3, v \in 0..1}

\* RenameOptions: has holds the keys the caller supplied
NoOptions ==
  [has |-> {}, counter |-> 1, counterPadding |-> 3, customText |-> <<>>,
   fallbackDate |-> NewDate(0), preserveExtension |-> TRUE, startCounter |-> 1]

\* What TemplatePreview.svelte passes for the first photo
PreviewOptions ==
  [NoOptions EXCEPT !.has = {"customText", "counter", "counterPadding", "preserveExtension"}]

S_shot == <<"s", "h", "o", "t">>
S_jpg == <<"j", "p", "g">>
S_IMGjpg == <<"I", "M", "G", ".">> \o S_jpg
S_shotjpg == S_shot \o <<".">> \o S_jpg
S_shot1jpg == S_shot \o <<"_", "1", ".">> \o S_jpg
S_noext == <<"n", "o", "e", "x", "t">>

\* The scenarios of the specification's section 8
ScenarioDateCounter ==
  Braced(N_YYYY) \o Braced(N_MM) \o Braced(N_DD) \o <<"_">> \o Braced(N_counter)
ScenarioModelCounter == Braced(N_model) \o <<"_">> \o Braced(N_counter)
ScenarioUnknownCounter == Braced(N_unknown) \o <<"_">> \o Braced(N_counter)

GenPieces ==
  {Braced(t.name) : t \in MetadataTokens}
  \cup {Braced(N_orientation), Braced(N_counter), Braced(N_unknown), Braced(N_Make),
        <<"_">>, <<"{">>}

\* k times the piece p
RECURSIVE Repeat(_, _)
Repeat(p, k) == IF k = 0 THEN <<>> ELSE p \o Repeat(p, k - 1)

\* A piece up to MaxRepeat times, then possibly a second piece; and the
\* scenarios
GenTemplates ==
  {Repeat(p, j) \o q : p \in GenPieces, q \in GenPieces \cup {<<>>}, j \in 0..MaxRepeat}
  \cup {ScenarioDateCounter, ScenarioModelCounter, ScenarioUnknownCounter}
GenNames == {S_IMGjpg, S_noext}
GenOptions == {PreviewOptions}

\* No RenameResult yet
NoResult == [filename |-> <<>>, success |-> FALSE, warnings |-> <<>>, threw |-> FALSE]

\* ZipOptions: has holds the keys the caller supplied; onProgress is whether a
\* callback was supplied
NoZipOptions ==
  [has |-> {}, compressionLevel |-> 6, includeMetadata |-> FALSE, folderName |-> <<>>,
   onProgress |-> FALSE]

\* new FflateZip(callback): no entry added, end() not called, not terminated
NewZipStream == [entries |-> <<>>, ended |-> FALSE, terminated |-> FALSE]

\* The page has no photo, the usage store counts none and no upload is handled
IdlePage ==
  /\ photos = <<>>
  /\ totalProcessed = 0
  /\ inflight = <<>>

\* resolveFilenameConflict has not been called on its own
IdleConflict == conflict = [pc |-> "idle"]

\* No archive function has been called
IdleArchive ==
  /\ zipOptions = NoZipOptions
  /\ unreadable = {}
  /\ zipPath = "none"
  /\ zpc = "idle"
  /\ zipIndex = 0
  /\ zipInput = <<>>
  /\ zipStream = NewZipStream
  /\ processedCount = 0
  /\ progressCalls = <<>>
  /\ settled = <<>>

-----------------------------------------------------------------------------
(* generateFilename on its own: one call on arguments drawn at the start   *)

IdleBatch ==
  /\ files = <<>>
  /\ exifDataMap = <<>>
  /\ index = 0
  /\ usedFilenames = {}
  /\ results = <<>>
  /\ calls = <<>>
  /\ pc = "idle"
  /\ run = 1
  /\ firstResults = <<>>

InitGen ==
  /\ lastIndex = 0
  /\ now = 0
  /\ op = "none"
  /\ currentTemplate \in GenTemplates
  /\ argExif \in GenExifs
  /\ argName \in GenNames
  /\ argOptions \in GenOptions
  /\ ret = NoResult
  /\ history = <<>>
  /\ argValue = <<>>
  /\ IdleArchive
  /\ IdlePage
  /\ IdleConflict
  /\ IdleBatch

CallGenerateFilename ==
  /\ op = "none"
  /\ pc = "idle"
  /\ op' = "generateFilename"
  /\ ret' = generateFilename(currentTemplate, argExif, argName, argOptions, now)
  /\ lastIndex' = IF ret'.threw THEN lastIndex
                  ELSE LastIndexAfterMatch(resolveTokens(currentTemplate, argExif, argName,
                                                         argOptions, now).s)
  /\ history' = Append(history, [op |-> "generateFilename", template |-> currentTemplate])
  /\ UNCHANGED <<now, currentTemplate, argExif, argName, argOptions>>
  /\ UNCHANGED <<batchVars, argValue, archiveVars, pageVars, conflict>>

NextGen == CallGenerateFilename

SpecGen == InitGen /\ [][NextGen]_vars

-----------------------------------------------------------------------------
(* Properties of generateFilename                                          *)

\* The warnings of a result whose text is `text`
WarningsWith(result, text) == SelectSeq(result.warnings, LAMBDA w : w.text = text)

\* The part of a result's filename before the extension generateFilename
\* appended
BaseOf(result, originalFilename, options) ==
  LET ext == parseFilename(originalFilename).ext
  IN  IF Opt(options, "preserveExtension", TRUE) /\ ext # <<>>
      THEN SubSeq(result.filename, 1, Len(result.filename) - Len(ext) - 1)
      ELSE result.filename

\* C6: when a metadata token stands in the template and a field it needs is
\* absent from the metadata (or there is no metadata), generateFilename pushes
\* the warning of that token exactly once, however often the token occurs, and
\* the filename is the one the template without that token gives: every
\* occurrence was replaced by the empty string. Each such token has its own
\* warning.
C6_MissingFieldWarnsOnce ==
  op = "generateFilename" =>
    \A t \in MetadataTokens :
      (Includes(currentTemplate, Braced(t.name)) /\ \E f \in t.needs : ~Has(argExif, f)) =>
        /\ ~ret.threw
        /\ Len(WarningsWith(ret, t.text)) = 1
        /\ ret.filename =
             generateFilename(ReplaceAll(currentTemplate, Braced(t.name), <<>>),
                              argExif, argName, argOptions, now).filename

\* C6 happens: {make} stands twice and {iso} once in the template, the
\* metadata is there but holds neither field, and the result carries the two
\* warnings, one each
C6_Witness ==
  /\ op = "generateFilename"
  /\ currentTemplate = Braced(N_make) \o Braced(N_make) \o Braced(N_iso)
  /\ ~argExif.isNull
  /\ ~Has(argExif, "make") /\ ~Has(argExif, "iso")
  /\ ret.warnings = << Warning("Camera make not available in EXIF data"),
                       Warning("ISO not available in EXIF data") >>
  /\ BaseOf(ret, argName, argOptions) = <<>>

\* C8: when brace-delimited tokens are left after all the replacement passes,
\* generateFilename removes every one of them from the name and pushes exactly
\* one "Unresolved tokens" warning that lists them all, left to right; when
\* none is left there is no such warning. The template {unknown}_{counter}
\* with counter 1 and extension jpg gives _001.jpg and that one warning.
C8_UnresolvedStrippedOneWarning ==
  op = "generateFilename" =>
    /\ \E left \in {resolveTokens(currentTemplate, argExif, argName, argOptions, now).s} :
         /\ \E tokens \in {MatchTokens(left)} :
              WarningsWith(ret, "Unresolved tokens: ") =
                IF tokens = <<>> THEN <<>>
                ELSE << [text |-> "Unresolved tokens: ", list |-> JoinComma(tokens)] >>
         /\ BaseOf(ret, argName, argOptions) = sanitizeForFilename(RemoveTokens(left))
    /\ MatchTokens(BaseOf(ret, argName, argOptions)) = <<>>
    /\ (currentTemplate = ScenarioUnknownCounter /\ argName = S_IMGjpg
          /\ argOptions = PreviewOptions) =>
         /\ ret.filename = <<"_", "0", "0", "1", ".", "j", "p", "g">>
         /\ ret.warnings = << [text |-> "Unresolved tokens: ", list |-> Braced(N_unknown)] >>

\* C8 happens: two tokens that no pass knows stand in the template and the
\* result carries one warning that lists both in their order
C8_Witness ==
  /\ op = "generateFilename"
  /\ currentTemplate = Braced(N_unknown) \o Braced(N_Make)
  /\ ret.warnings = << [text |-> "Unresolved tokens: ",
                        list |-> Braced(N_unknown) \o <<",", " ">> \o Braced(N_Make)] >>
  /\ BaseOf(ret, argName, argOptions) = <<>>

-----------------------------------------------------------------------------
(* batchRename, one forEach iteration at a time                            *)

\* File objects: two photos that are both named shot.jpg, one named
\* shot_1.jpg and one whose name has no extension
F_shotA == [id |-> 1, name |-> S_shotjpg]
F_shotB == [id |-> 2, name |-> S_shotjpg]
F_shot1 == [id |-> 3, name |-> S_shot1jpg]
F_noext == [id |-> 4, name |-> S_noext]
FileObjects == {F_shotA, F_shotB, F_shot1, F_noext}

\* Templates handed to batchRename: the original name, the camera make, a
\* fixed text, and the template the page starts with
T_original == Braced(N_original)
T_make == Braced(N_make)
T_fixed == S_shot
T_default == Braced(N_date) \o <<"_">> \o Braced(N_model) \o <<"_">> \o Braced(N_counter)
BatchTemplates == {T_original, T_make, T_fixed, T_default}

\* Metadata maps: empty; metadata for shot.jpg and shot_1.jpg; the same two
\* entries put in the other order
ExifShot == [key |-> S_shotjpg, value |-> FullExif]
ExifShot1 == [key |-> S_shot1jpg, value |-> ExifWith({"dateTaken", "model"})]
BatchExifMaps == { <<>>, <<ExifShot, ExifShot1>>, <<ExifShot1, ExifShot>> }

\* Options of a batch: none; startCounter 0; startCounter 5 together with a
\* counter of the caller's
StartAtZero == [NoOptions EXCEPT !.has = {"startCounter"}, !.startCounter = 0]
StartAtFive ==
  [NoOptions EXCEPT !.has = {"startCounter", "counter"}, !.startCounter = 5, !.counter = 9]
BatchOptions == {NoOptions, StartAtZero, StartAtFive}

\* batchRename has been entered: the Map and the Set are new, forEach is at
\* position 0
EnterBatch ==
  /\ index = 0
  /\ usedFilenames = {}
  /\ results = <<>>
  /\ calls = <<>>
  /\ pc = "loop"

InitBatch ==
  /\ lastIndex = 0
  /\ now = 0
  /\ op = "none"
  /\ currentTemplate \in BatchTemplates
  /\ argExif = NullExif
  /\ argName = <<>>
  /\ argOptions \in BatchOptions
  /\ ret = NoResult
  /\ history = <<>>
  /\ argValue = <<>>
  /\ IdleArchive
  /\ IdlePage
  /\ IdleConflict
  /\ files \in ListsUpTo(FileObjects, MaxFiles)
  /\ exifDataMap \in BatchExifMaps
  /\ EnterBatch
  /\ run = 1
  /\ firstResults = <<>>

\* One call of the forEach callback: lines 459 to 474
BatchStep ==
  /\ pc = "loop"
  /\ index < Len(files)
  /\ \E st \in {forEachCallback([usedFilenames |-> usedFilenames, results |-> results,
                                    calls |-> calls, threw |-> FALSE],
                                   files[index + 1], index, currentTemplate, exifDataMap,
                                   argOptions, now)} :
         IF st.threw
         THEN /\ pc' = "threw"
              /\ UNCHANGED <<index, usedFilenames, results, calls, lastIndex>>
         ELSE /\ pc' = "loop"
              /\ index' = index + 1
              /\ usedFilenames' = st.usedFilenames
              /\ results' = st.results
              /\ calls' = st.calls
              /\ lastIndex' = 0
  /\ UNCHANGED <<now, callVars, files, exifDataMap, run, firstResults, history>>
  /\ UNCHANGED <<argValue, archiveVars, pageVars, conflict>>

\* return results: line 476
BatchReturn ==
  /\ pc = "loop"
  /\ index = Len(files)
  /\ pc' = "done"
  /\ op' = "batchRename"
  /\ ret' = [results |-> results]
  /\ history' = Append(history, [op |-> "batchRename", template |-> currentTemplate])
  /\ UNCHANGED <<lastIndex, now, currentTemplate, argExif, argName, argOptions, files,
                 exifDataMap, index, usedFilenames, results, calls, run, firstResults>>
  /\ UNCHANGED <<argValue, archiveVars, pageVars, conflict>>

NextBatch == BatchStep \/ BatchReturn

SpecBatch == InitBatch /\ [][NextBatch]_vars

\* generateFilename on its own, or a batch
InitRename == InitGen \/ InitBatch

NextRename == NextGen \/ NextBatch

SpecRename == InitRename /\ [][NextRename]_vars

-----------------------------------------------------------------------------
(* batchRename twice on the same arguments, while the clock runs          *)

T_datetime == Braced(N_datetime) \o <<"_">> \o Braced(N_counter)
RerunTemplates == {T_original, T_datetime}
WithFallbackDate == [NoOptions EXCEPT !.has = {"fallbackDate"}]
RerunOptions == {NoOptions, WithFallbackDate}

InitRerun ==
  /\ lastIndex = 0
  /\ now = 0
  /\ op = "none"
  /\ currentTemplate \in RerunTemplates
  /\ argExif = NullExif
  /\ argName = <<>>
  /\ argOptions \in RerunOptions
  /\ ret = NoResult
  /\ history = <<>>
  /\ argValue = <<>>
  /\ IdleArchive
  /\ IdlePage
  /\ IdleConflict
  /\ files \in ListsUpTo({F_shotA, F_shotB}, MaxFiles)
  /\ exifDataMap \in {<<>>, <<ExifShot>>}
  /\ EnterBatch
  /\ run = 1
  /\ firstResults = <<>>

\* The clock advances by a second
Tick ==
  /\ now < MaxClock
  /\ now' = now + 1
  /\ UNCHANGED <<lastIndex, callVars, batchVars, history, argValue, archiveVars, pageVars, conflict>>

\* The caller calls batchRename again, on the same arguments
Reinvoke ==
  /\ pc = "done"
  /\ run = 1
  /\ run' = 2
  /\ firstResults' = results
  /\ index' = 0
  /\ usedFilenames' = {}
  /\ results' = <<>>
  /\ calls' = <<>>
  /\ pc' = "loop"
  /\ UNCHANGED <<lastIndex, now, callVars, files, exifDataMap, history>>
  /\ UNCHANGED <<argValue, archiveVars, pageVars, conflict>>

NextRerun == BatchStep \/ BatchReturn \/ Tick \/ Reinvoke

SpecRerun == InitRerun /\ [][NextRerun]_vars

-----------------------------------------------------------------------------
(* Properties of batchRename                                               *)

ConflictWarning == Warning("Filename conflict resolved with numeric suffix")

\* The filenames of the Map's entries, in iteration order
Filenames(map) == [k \in 1..Len(map) |-> map[k].value.filename]

\* The keys of the Map's entries, in iteration order
Keys(map) == [k \in 1..Len(map) |-> map[k].key]

\* The elements of a list without the repetitions, in order of first occurrence
RECURSIVE FirstOccurrences(_)
FirstOccurrences(fs) ==
  IF fs = <<>> THEN <<>>
  ELSE LET front == SubSeq(fs, 1, Len(fs) - 1)
           last == fs[Len(fs)]
       IN  IF \E i \in 1..Len(front) : front[i] = last
           THEN FirstOccurrences(front)
           ELSE Append(FirstOccurrences(front), last)

\* C1: at every point of a batch, and so in the mapping batchRename returns,
\* the filenames of the entries are pairwise distinct, also when a file's own
\* resolved name equals a name produced earlier by suffixing.
C1_FilenamesPairwiseDistinct ==
  \A j, k \in 1..Len(results) :
    j # k => results[j].value.filename # results[k].value.filename

\* C1 happens: two photos named shot.jpg and then one named shot_1.jpg, under
\* the template {original}: the second became shot_1.jpg, the third resolved
\* to shot_1.jpg by itself and became shot_1_1.jpg
C1_Witness ==
  /\ pc = "done"
  /\ currentTemplate = T_original
  /\ files = <<F_shotA, F_shotB, F_shot1>>
  /\ calls[3].candidate = S_shot1jpg /\ calls[3].conflict
  /\ Filenames(ret.results) = << S_shotjpg, S_shot1jpg,
                                  S_shot \o <<"_", "1", "_", "1", ".">> \o S_jpg >>

C3_CounterIsStartPlusPosition ==
  \A k \in 1..Len(calls) :
    calls[k].counter =
      (IF "startCounter" \in argOptions.has THEN argOptions.startCounter ELSE 1)
      + calls[k].position

\* The name that the suffix rule gives a candidate: base_k.extension (base_k
\* when the candidate has no dot), split at the last dot, for the least
\* k >= 1 whose name is not in used
Suffixed(candidate, k) ==
  LET dot == LastIndexOf(candidate, ".")
  IN  IF dot = -1 THEN candidate \o <<"_">> \o NumToStr(k)
      ELSE SubSeq(candidate, 1, dot) \o <<"_">> \o NumToStr(k) \o From(candidate, dot + 1)

LeastSuffixed(candidate, used) ==
  LET k == CHOOSE n \in 1..(Cardinality(used) + 1) :
             /\ Suffixed(candidate, n) \notin used
             /\ \A m \in 1..(n - 1) : Suffixed(candidate, m) \in used
  IN  Suffixed(candidate, k)

\* C4 as stated: a file whose resolved filename is already assigned gets
\* base_k.extension, the extension of the resolved filename unchanged and k
\* the least integer >= 1 that gives a name not assigned yet, and the
\* conflict warning; a file whose resolved filename is not assigned yet keeps
\* it and gets no conflict warning.
C4_ConflictGetsLeastSuffix ==
  \A k \in 1..Len(calls) :
    IF calls[k].conflict
    THEN /\ calls[k].filename = LeastSuffixed(calls[k].candidate, calls[k].used)
         /\ Len(SelectSeq(calls[k].warnings, LAMBDA w : w = ConflictWarning)) = 1
    ELSE /\ calls[k].filename = calls[k].candidate
         /\ Len(SelectSeq(calls[k].warnings, LAMBDA w : w = ConflictWarning)) = 0

\* C5 as stated: a second invocation of batchRename on the same list,
\* template, metadata map and options returns the same mapping as the first:
\* the same filename and the same warnings for every file.
C5_SecondRunSameResults ==
  (run = 2 /\ pc = "done") => ret.results = firstResults

\* C7: generateFilename returns, never throws, and returns success = true,
\* whatever the template and the original filename are, when the metadata is
\* null or lacks any of its fields; and in a batch every position gets its
\* result: no position stops the loop, every result has success = true, and
\* when batchRename returns every file of the list has an entry.
C7_TotalOverMetadata ==
  /\ op = "generateFilename" => (~ret.threw /\ ret.success)
  /\ pc # "threw"
  /\ pc = "loop" => Len(calls) = index
  /\ \A k \in 1..Len(results) : results[k].value.success
  /\ pc = "done" =>
       /\ Len(calls) = Len(files)
       /\ \A i \in 1..Len(files) : \E k \in 1..Len(ret.results) :
            /\ ret.results[k].key = files[i]
            /\ ret.results[k].value.success

\* C7 happens: a batch under the page's template whose first file has no
\* entry in the metadata map and whose second file has full metadata: the
\* first result carries the warning of the missing model, the second none
C7_Witness ==
  /\ pc = "done"
  /\ currentTemplate = T_default
  /\ files = <<F_noext, F_shotA>>
  /\ exifDataMap = <<ExifShot, ExifShot1>>
  /\ Len(ret.results) = 2
  /\ ret.results[1].value.warnings =
       << Warning("Camera model not available in EXIF data") >>
  /\ ret.results[2].value.warnings = <<>>
  /\ ret.results[2].value.success

-----------------------------------------------------------------------------
(* A session of calls that share TOKEN_REGEX                               *)

\* Names that differ from a catalogue name, or from counter:<digits>
OtherNames ==
  {N_unknown, N_Make, N_makeSpaced, N_yyyy, N_counter0, N_counter05, N_counter12,
   N_counterNone, N_counterNeg, N_counterX, N_Counter5}

ParsePieces ==
  {Braced(N_make), Braced(N_unknown), Braced(N_counter0), <<"{">>, <<"}">>, <<"x">>}

\* The templates of a session: every catalogue token and every other name on
\* its own, every two pieces in a row, and the empty template
ParseTemplates ==
  TEMPLATE_TOKENS \cup {Braced(n) : n \in OtherNames}
  \cup {p \o q : p \in ParsePieces, q \in ParsePieces} \cup {<<>>}

\* Templates of the session's other calls
HistoryTemplates ==
  { Braced(N_make) \o <<"_">> \o Braced(N_model), <<"x">> \o Braced(N_unknown) }

SessionFiles == <<F_shotA, F_shotB>>

InitParse ==
  /\ lastIndex = 0
  /\ now = 0
  /\ op = "none"
  /\ currentTemplate \in ParseTemplates
  /\ argExif = NullExif
  /\ argName = S_IMGjpg
  /\ argOptions = PreviewOptions
  /\ ret = NoResult
  /\ history = <<>>
  /\ argValue = <<>>
  /\ IdleArchive
  /\ IdlePage
  /\ IdleConflict
  /\ IdleBatch

\* The call op(t) has returned
Returned(name, t) ==
  /\ op' = name
  /\ history' = Append(history, [op |-> name, template |-> t])
  /\ UNCHANGED <<now, currentTemplate, argExif, argName, argOptions, batchVars>>
  /\ UNCHANGED <<argValue, archiveVars, pageVars, conflict>>

CallParseTemplate ==
  /\ Len(history) < MaxHistory
  /\ \E t \in HistoryTemplates \cup {currentTemplate} :
       \E r \in {parseTemplate(t, lastIndex)} :
           /\ ret' = [tokens |-> r.tokens]
           /\ lastIndex' = r.lastIndex
           /\ Returned("parseTemplate", t)

CallValidateTemplate ==
  /\ Len(history) < MaxHistory
  /\ \E t \in HistoryTemplates \cup {currentTemplate} :
       \E r \in {validateTemplate(t, lastIndex)} :
           /\ ret' = [isValid |-> r.isValid, errors |-> r.errors, warnings |-> r.warnings]
           /\ lastIndex' = r.lastIndex
           /\ Returned("validateTemplate", t)

SessionGenerateFilename ==
  /\ Len(history) < MaxHistory
  /\ \E t \in HistoryTemplates \cup {currentTemplate} :
       /\ ret' = generateFilename(t, argExif, argName, argOptions, now)
       /\ lastIndex' = LastIndexAfterMatch(resolveTokens(t, argExif, argName,
                                                         argOptions, now).s)
       /\ Returned("generateFilename", t)

SessionBatchRename ==
  /\ Len(history) < MaxHistory
  /\ \E t \in HistoryTemplates \cup {currentTemplate} :
       /\ ret' = [results |-> batchRename(SessionFiles, t, <<>>, NoOptions, now).results]
       /\ lastIndex' = 0
       /\ Returned("batchRename", t)

NextParse ==
  \/ CallParseTemplate
  \/ CallValidateTemplate
  \/ SessionGenerateFilename
  \/ SessionBatchRename

SpecParse == InitParse /\ [][NextParse]_vars

-----------------------------------------------------------------------------
(* Properties of parseTemplate                                             *)

\* s[p..q] is a match of \{([^}]+)\}: an opening brace, one or more
\* characters other than "}", a closing brace
IsBracePair(s, p, q) ==
  /\ 1 <= p /\ p + 2 <= q /\ q <= Len(s)
  /\ s[p] = "{" /\ s[q] = "}"
  /\ \A i \in (p + 1)..(q - 1) : s[i] # "}"

\* The tokens of a template, read off the template: for each closing brace
\* that ends a brace pair, the pair that starts leftmost
BracePairs(s) ==
  {pq \in (1..Len(s)) \X (1..Len(s)) :
     /\ IsBracePair(s, pq[1], pq[2])
     /\ \A p \in 1..(pq[1] - 1) : ~IsBracePair(s, p, pq[2])}

LeftToRight(pairs) ==
  [k \in 1..Cardinality(pairs) |->
     CHOOSE pq \in pairs : Cardinality({o \in pairs : o[1] < pq[1]}) = k - 1]

\* A name of the form counter:<digits>
CounterColonDigits(name) ==
  \E ds \in {From(name, Len(N_counter) + 2)} :
    /\ name = N_counter \o <<":">> \o ds
    /\ ds # <<>>
    /\ \A i \in 1..Len(ds) : ds[i] \in Digits

ExpectedTokens(s) ==
  LET pairs == LeftToRight(BracePairs(s))
  IN  [k \in 1..Len(pairs) |->
         LET name == SubSeq(s, pairs[k][1] + 1, pairs[k][2] - 1)
         IN  [token |-> name,
              fullToken |-> SubSeq(s, pairs[k][1], pairs[k][2]),
              position |-> pairs[k][1] - 1,
              isValid |-> (Braced(name) \in TEMPLATE_TOKENS \/ CounterColonDigits(name))]]

\* C9: whatever calls of parseTemplate, validateTemplate, generateFilename and
\* batchRename came before, on whatever templates, parseTemplate(t) returns
\* the tokens of t, left to right, with their names, positions and isValid
\* flags: a function of t alone, so the same for every call on t.
C9_ParseIndependentOfHistory ==
  op = "parseTemplate" => ret.tokens = ExpectedTokens(history[Len(history)].template)

\* C9 happens: generateFilename on another template, then parseTemplate on the
\* session's template, which holds two tokens
C9_Witness ==
  /\ op = "parseTemplate"
  /\ Len(history) = 2
  /\ history[1].op = "generateFilename"
  /\ history[1].template # currentTemplate
  /\ history[2].template = currentTemplate
  /\ currentTemplate = Braced(N_make) \o Braced(N_unknown)
  /\ Len(ret.tokens) = 2
  /\ ret.tokens[2].position = 6

\* C10 as stated: parseTemplate returns every brace pair of the template as a
\* token, and marks a token valid exactly when its name is a catalogue name or
\* counter:<positive integer>; so counter:0, and a name that differs from a
\* catalogue name in case or by spaces, is invalid.
C10_ValidIffCatalogueOrPositiveWidth ==
  op = "parseTemplate" =>
    /\ Len(ret.tokens) = Cardinality(BracePairs(history[Len(history)].template))
    /\ \A k \in 1..Len(ret.tokens) :
         ret.tokens[k].isValid <=>
           \/ Braced(ret.tokens[k].token) \in TEMPLATE_TOKENS
           \/ /\ CounterColonDigits(ret.tokens[k].token)
              /\ ParseInt(From(ret.tokens[k].token, Len(N_counter) + 2)) > 0

-----------------------------------------------------------------------------
(* sanitizeForFilename on its own: applied to a string, then to its result *)

\* The longest string handed to sanitizeForFilename
MaxValueLen == 4

\* A letter, white space, the underscore and two of the illegal characters
SanitizeChars == {"a", " ", "\t", "_", ":", "*"}

SanitizeValues == ListsUpTo(SanitizeChars, MaxValueLen)

InitSanitize ==
  /\ lastIndex = 0
  /\ now = 0
  /\ op = "none"
  /\ currentTemplate = <<>>
  /\ argExif = NullExif
  /\ argName = <<>>
  /\ argOptions = NoOptions
  /\ ret = <<>>
  /\ history = <<>>
  /\ argValue \in SanitizeValues
  /\ IdleArchive
  /\ IdlePage
  /\ IdleConflict
  /\ IdleBatch

\* sanitizeForFilename(argValue) first, then sanitizeForFilename of what the
\* call before returned
CallSanitizeForFilename ==
  /\ pc = "idle"
  /\ zpc = "idle"
  /\ op \in {"none", "sanitizeForFilename"}
  /\ Len(history) < MaxHistory
  /\ \E value \in {IF op = "none" THEN argValue ELSE ret} :
       /\ ret' = sanitizeForFilename(value)
       /\ history' = Append(history, [op |-> "sanitizeForFilename", value |-> value])
  /\ op' = "sanitizeForFilename"
  /\ UNCHANGED <<lastIndex, now, currentTemplate, argExif, argName, argOptions>>
  /\ UNCHANGED <<batchVars, argValue, archiveVars, pageVars, conflict>>

NextSanitize == CallSanitizeForFilename

SpecSanitize == InitSanitize /\ [][NextSanitize]_vars

\* C11: sanitizeForFilename is idempotent: applied to a string it has
\* returned, it returns that string unchanged, so that
\* sanitizeForFilename(sanitizeForFilename(s)) = sanitizeForFilename(s) for
\* every string s; and what it returns holds no illegal character, no white
\* space and no two underscores in a row.
C11_SanitizeIdempotent ==
  (op = "sanitizeForFilename" /\ Len(history) >= 2) =>
    /\ history[Len(history)].value = sanitizeForFilename(history[Len(history) - 1].value)
    /\ ret = history[Len(history)].value
    /\ Range(ret) \cap (IllegalChars \cup SpaceChars) = {}
    /\ ~Includes(ret, <<"_", "_">>)

\* C11 happens: a string with an illegal character, white space and an
\* underscore was sanitized to _a, and the second application has returned
C11_Witness ==
  /\ op = "sanitizeForFilename"
  /\ Len(history) = 2
  /\ history[1].value = <<":", " ", "_", "a">>
  /\ history[2].value = <<"_", "a">>
  /\ ret = <<"_", "a">>

-----------------------------------------------------------------------------
(* Archive creation: src/src/lib/utils/zip.ts                              *)

\* A File of an archive call is an object: id is its identity, name its name,
\* size its length in bytes, lastModified its time stamp (0 when the browser
\* gives none) and bytes what arrayBuffer() resolves to.

INCOMPRESSIBLE_TYPES ==
  { <<"j", "p", "g">>, <<"j", "p", "e", "g">>, <<"p", "n", "g">>, <<"g", "i", "f">>, <<"w", "e", "b", "p">>, <<"h", "e", "i", "c">>, <<"h", "e", "i", "f">>, <<"a", "v", "i", "f">>,
    <<"m", "p", "4">>, <<"m", "o", "v">>, <<"a", "v", "i">>, <<"m", "k", "v">>, <<"w", "e", "b", "m">>,
    <<"m", "p", "3">>, <<"a", "a", "c">>, <<"f", "l", "a", "c">>, <<"m", "4", "a">>, <<"o", "g", "g">>,
    <<"z", "i", "p">>, <<"r", "a", "r">>, <<"7", "z">>, <<"g", "z">>, <<"b", "z", "2">>,
    <<"p", "d", "f">>, <<"d", "o", "c", "x">>, <<"x", "l", "s", "x">>, <<"p", "p", "t", "x">> }

\* One character of String.prototype.toLowerCase
LowerOf(c) ==
  CASE c = "A" -> "a" [] c = "B" -> "b" [] c = "C" -> "c" [] c = "D" -> "d"
    [] c = "E" -> "e" [] c = "F" -> "f" [] c = "G" -> "g" [] c = "H" -> "h"
    [] c = "I" -> "i" [] c = "J" -> "j" [] c = "K" -> "k" [] c = "L" -> "l"
    [] c = "M" -> "m" [] c = "N" -> "n" [] c = "O" -> "o" [] c = "P" -> "p"
    [] c = "Q" -> "q" [] c = "R" -> "r" [] c = "S" -> "s" [] c = "T" -> "t"
    [] c = "U" -> "u" [] c = "V" -> "v" [] c = "W" -> "w" [] c = "X" -> "x"
    [] c = "Y" -> "y" [] c = "Z" -> "z"
    [] OTHER -> c

ToLowerCase(s) == [i \in 1..Len(s) |-> LowerOf(s[i])]

\* The mutant of getFileExtension: without toLowerCase
getFileExtensionAsWritten(filename) ==
  LET lastDot == LastIndexOf(filename, ".")
  IN  IF lastDot = -1 THEN <<>> ELSE From(filename, lastDot + 2)

getFileExtension(filename) ==
  LET lastDot == LastIndexOf(filename, ".")
  IN  IF lastDot = -1 THEN <<>> ELSE ToLowerCase(From(filename, lastDot + 2))

\* renameMap.get(file) is not undefined
MapHas(map, key) == \E i \in 1..Len(map) : map[i].key = key

\* renameMap.get(file), for a key the map holds
MapGet(map, key) == map[CHOOSE i \in 1..Len(map) : map[i].key = key].value

\* folderName ? `${folderName}/${name}` : name
EntryPath(folderName, name) ==
  IF folderName # <<>> THEN folderName \o <<"/">> \o name ELSE name

\* zipInput[key] = value: the property is replaced where it stands, a new one
\* is added at the end (the keys of the model are no array indices)
ObjectSet(obj, key, value) == MapSet(obj, key, value)

\* INCOMPRESSIBLE_TYPES.has(ext) ? 0 : compressionLevel
LevelFor(file, compressionLevel) ==
  IF getFileExtension(file.name) \in INCOMPRESSIBLE_TYPES THEN 0 ELSE compressionLevel

\* file.lastModified ? new Date(file.lastModified) : new Date()
MtimeFor(file, clock) == IF file.lastModified # 0 THEN file.lastModified ELSE clock

\* [uint8Array, { level, mtime }]
FileEntry(file, uint8Array, compressionLevel, clock) ==
  [data |-> [type |-> "bytes", of |-> uint8Array], hasOptions |-> TRUE,
   level |-> LevelFor(file, compressionLevel), mtime |-> MtimeFor(file, clock)]

\* The text of generateMetadataFile: when it was generated, the total it
\* states, and one log item for each position of the list whose file the map
\* holds (position, original name, new name, warnings)
generateMetadataFile(fs, renameMap, clock) ==
  [generated |-> clock,
   totalFiles |-> Len(fs),
   log |-> LET item(i) == [index |-> i, name |-> fs[i].name,
                           filename |-> MapGet(renameMap, fs[i]).filename,
                           warnings |-> MapGet(renameMap, fs[i]).warnings]
               RECURSIVE From1(_)
               From1(i) == IF i > Len(fs) THEN <<>>
                           ELSE IF MapHas(renameMap, fs[i]) THEN <<item(i)>> \o From1(i + 1)
                           ELSE From1(i + 1)
           IN  From1(1)]

S_metadatatxt == <<"m", "e", "t", "a", "d", "a", "t", "a", ".", "t", "x", "t">>
S_renamedphotos == <<"r", "e", "n", "a", "m", "e", "d", "-", "p", "h", "o", "t", "o", "s">>

\* [strToU8(metadata)]: an entry without options of its own
ManifestEntry(text) ==
  [data |-> [type |-> "text", of |-> text], hasOptions |-> FALSE, level |-> 0, mtime |-> 0]

\* The zipInput after `if (includeMetadata) { ... }`
WithManifest(obj, fs, renameMap, includeMetadata, folderName, clock) ==
  IF includeMetadata
  THEN ObjectSet(obj, EntryPath(folderName, S_metadatatxt),
                 ManifestEntry(generateMetadataFile(fs, renameMap, clock)))
  ELSE obj

\* generateZipFilename: `${folderName || 'renamed-photos'}_${date}_${time}.zip`,
\* held as the base name and the clock reading the date and time are taken from
generateZipFilename(folderName, clock) ==
  [baseName |-> IF folderName # <<>> THEN folderName ELSE S_renamedphotos, date |-> clock]

\* What zipSync(zipInput, { level }) and zip(zipInput, { level }, callback)
\* encode: one archive entry for each key, in key order, with the options of
\* the entry or else those of the call
Encoded(obj, defaultLevel, clock) ==
  [i \in 1..Len(obj) |->
     [path |-> obj[i].key, data |-> obj[i].value.data,
      level |-> IF obj[i].value.hasOptions THEN obj[i].value.level ELSE defaultLevel,
      mtime |-> IF obj[i].value.hasOptions THEN obj[i].value.mtime ELSE clock]]

\* What the Zip stream has written when end() is called: one entry for each
\* stream added, in the order of the add calls (ZipPassThrough stores, level 0)
Streamed(stream) ==
  [i \in 1..Len(stream.entries) |->
     [path |-> stream.entries[i].path, data |-> stream.entries[i].data,
      level |-> IF stream.entries[i].encoder = "ZipDeflate" THEN stream.entries[i].level
                ELSE 0,
      mtime |-> stream.entries[i].mtime]]

\* The ZipResult a call resolves with; archive stands for blob and size
ZipResult(archive, fs, folderName, clock) ==
  [state |-> "resolved", archive |-> archive,
   filename |-> generateZipFilename(folderName, clock), fileCount |-> Len(fs)]

\* The rejection of a call whose file.arrayBuffer() rejected
ReadRejection(file) ==
  [state |-> "rejected", reason |-> "arrayBuffer", file |-> file.id, path |-> "read"]

\* The rejection of a call whose encoder failed: the exception zipSync threw,
\* 'ZIP creation failed: ...' or 'ZIP streaming failed: ...'
EncoderRejection(path) == [state |-> "rejected", reason |-> "encoder", file |-> 0, path |-> path]

\* createZip: the thresholds above which it takes the asynchronous path
ASYNC_THRESHOLD_FILES == 10
ASYNC_THRESHOLD_SIZE == 10 * 1024 * 1024

\* files.reduce((sum, file) => sum + file.size, 0)
RECURSIVE TotalSize(_)
TotalSize(fs) == IF fs = <<>> THEN 0 ELSE Head(fs).size + TotalSize(Tail(fs))

\* The longest list of files handed to an archive function
MaxArchive == 2

\* A photo with an upper-case extension, a text file named like the manifest,
\* and a file of 11 MB without extension and without time stamp
A_photo == [id |-> 1, name |-> <<"a", ".", "J", "P", "G">>, size |-> 2, lastModified |-> 7,
            bytes |-> <<255, 216>>]
A_notes == [id |-> 2, name |-> S_metadatatxt, size |-> 2, lastModified |-> 8,
            bytes |-> <<104, 105>>]
A_big == [id |-> 3, name |-> <<"b">>, size |-> 11 * 1024 * 1024, lastModified |-> 0,
          bytes |-> <<66>>]
ArchiveFiles == {A_photo, A_notes, A_big}

\* How the files were renamed: to their own names; or to {original}.txt
\* without the original extension
T_originaltxt == Braced(N_original) \o <<".", "t", "x", "t">>
NoExtension == [NoOptions EXCEPT !.has = {"preserveExtension"}, !.preserveExtension = FALSE]
ArchiveRenames ==
  { [template |-> T_original, options |-> NoOptions],
    [template |-> T_originaltxt, options |-> NoExtension] }

S_out == <<"o", "u", "t">>

\* ZipOptions: compressionLevel not supplied, 0 or 9; includeMetadata not
\* supplied or true; folderName not supplied or 'out'; onProgress or none
ArchiveOptions ==
  { [has |-> level.has \cup meta \cup folder, compressionLevel |-> level.value,
     includeMetadata |-> TRUE, folderName |-> S_out, onProgress |-> progress] :
      level \in { [has |-> {}, value |-> 6], [has |-> {"compressionLevel"}, value |-> 0],
                  [has |-> {"compressionLevel"}, value |-> 9] },
      meta \in {{}, {"includeMetadata"}},
      folder \in {{}, {"folderName"}},
      progress \in BOOLEAN }

\* The state a caller is in when it calls an archive function: batchRename
\* has returned the mapping.  handleDownload passes the list batchRename was
\* given; another caller of the exported functions may pass a list with one
\* more file at its end, which the mapping does not hold (explored with and
\* without a progress callback, the other options not supplied)
InitArchive ==
  /\ lastIndex = 0
  /\ now = 0
  /\ op = "batchRename"
  /\ \E r \in ArchiveRenames : currentTemplate = r.template /\ argOptions = r.options
  /\ argExif = NullExif
  /\ argName = <<>>
  /\ files \in ListsUpTo(ArchiveFiles, MaxArchive)
  /\ exifDataMap = <<>>
  /\ \E renamed \in {files, SubSeq(files, 1, Len(files) - 1)} :
       /\ index = Len(renamed)
       /\ \E st \in {batchRename(renamed, currentTemplate, exifDataMap, argOptions, now)} :
            /\ usedFilenames = st.usedFilenames
            /\ results = st.results
            /\ calls = st.calls
  /\ pc = "done"
  /\ run = 1
  /\ firstResults = <<>>
  /\ ret = [results |-> results]
  /\ history = <<[op |-> "batchRename", template |-> currentTemplate]>>
  /\ argValue = <<>>
  /\ IdlePage
  /\ IdleConflict
  /\ zipOptions \in ArchiveOptions
  /\ Len(results) < Len(files) => zipOptions.has = {}
  /\ unreadable \in {{}, {A_notes}}
  /\ zipPath = "none"
  /\ zpc = "idle"
  /\ zipIndex = 0
  /\ zipInput = <<>>
  /\ zipStream = NewZipStream
  /\ processedCount = 0
  /\ progressCalls = <<>>
  /\ settled = <<>>

renameVars == <<lastIndex, now, currentTemplate, argExif, argName, argOptions, ret,
                batchVars, history, argValue, pageVars, conflict>>

\* resolve(outcome) or reject(outcome) on the promise of the running call: a
\* promise settles once, a later resolve or reject changes nothing
Settle(outcome) ==
  settled' = IF zipPath \in DOMAIN settled THEN settled
             ELSE [p \in DOMAIN settled \cup {zipPath} |->
                     IF p = zipPath THEN outcome ELSE settled[p]]

\* Where the call stands once its function body is over: how its promise
\* settled, or settles now
Over(state) == IF zipPath \in DOMAIN settled THEN settled[zipPath].state ELSE state

\* The mutant of ProgressCall: the callback is called before processedCount++
ProgressCallBeforeCount(called, onProgress, current, total, filename) ==
  IF onProgress
  THEN Append(called, [current |-> current - 1, total |-> total, filename |-> filename])
  ELSE called

\* if (onProgress) { onProgress(processedCount, files.length, renameResult.filename) }
\* after processedCount++: the calls made so far, and this one
ProgressCall(called, onProgress, current, total, filename) ==
  IF onProgress
  THEN Append(called, [current |-> current, total |-> total, filename |-> filename])
  ELSE called

\* The mutant of LoopDone: the loop is left before its last file
LoopDoneBeforeLast(i, fs) == i >= Len(fs) - 1

\* The for-of loop has no file left
LoopDone(i, fs) == i = Len(fs)

\* An archive function is entered on the files and the mapping: its locals
\* are new (zipInput = {}, processedCount = 0, a new Zip stream)
EnterZip(name, path) ==
  /\ zpc \in {"idle", "resolved", "rejected"}
  /\ op' = name
  /\ zipPath' = path
  /\ zpc' = "loop"
  /\ zipIndex' = 0
  /\ zipInput' = <<>>
  /\ zipStream' = NewZipStream
  /\ processedCount' = 0
  /\ progressCalls' = <<>>
  /\ UNCHANGED <<zipOptions, unreadable, settled, renameVars>>

\* Each path is taken once on the arguments of the session
CallCreateZipSync ==
  /\ "sync" \notin DOMAIN settled
  /\ EnterZip("createZipSync", "sync")

CallCreateZipAsync ==
  /\ "async" \notin DOMAIN settled
  /\ EnterZip("createZipAsync", "async")

CallCreateZipStream ==
  /\ "stream" \notin DOMAIN settled
  /\ EnterZip("createZipStream", "stream")

\* createZip: the asynchronous path for more than 10 files or more than 10 MB
CallCreateZip ==
  \E path \in {IF Len(files) > ASYNC_THRESHOLD_FILES
                   \/ TotalSize(files) > ASYNC_THRESHOLD_SIZE
                THEN "async" ELSE "sync"} :
    /\ path \notin DOMAIN settled
    /\ EnterZip("createZip", path)

\* The for-of loop up to `await file.arrayBuffer()`: a file the mapping does
\* not hold is skipped; createZipStream adds the file's stream to the Zip
\* stream before it reads the file
ZipNextFile ==
  /\ zpc = "loop"
  /\ zipIndex < Len(files)
  /\ \E file \in {files[zipIndex + 1]} :
       IF ~MapHas(results, file)
       THEN /\ zipIndex' = zipIndex + 1
            /\ UNCHANGED <<zpc, zipStream>>
       ELSE /\ zpc' = "reading"
            /\ zipStream' =
                 IF zipPath = "stream"
                 THEN [zipStream EXCEPT !.entries = Append(@,
                        [path |-> EntryPath(Opt(zipOptions, "folderName", <<>>),
                                            MapGet(results, file).filename),
                         encoder |-> IF getFileExtension(file.name) \in INCOMPRESSIBLE_TYPES
                                     THEN "ZipPassThrough" ELSE "ZipDeflate",
                         level |-> Opt(zipOptions, "compressionLevel", 6),
                         mtime |-> MtimeFor(file, now),
                         data |-> [type |-> "pending", of |-> <<>>]])]
                 ELSE zipStream
            /\ UNCHANGED zipIndex
  /\ UNCHANGED <<op, zipOptions, unreadable, zipPath, zipInput, processedCount,
                 progressCalls, settled, renameVars>>

\* The mutant of AwaitArrayBuffer: a failed read is caught and gives no bytes,
\* `await file.arrayBuffer().catch(() => new ArrayBuffer(0))`
AwaitArrayBufferCaught(file, failing) ==
  IF file \in failing THEN [rejected |-> FALSE, bytes |-> <<>>]
  ELSE [rejected |-> FALSE, bytes |-> file.bytes]

\* const arrayBuffer = await file.arrayBuffer(); new Uint8Array(arrayBuffer):
\* the exception of a rejected read, or the bytes
AwaitArrayBuffer(file, failing) ==
  IF file \in failing THEN [rejected |-> TRUE, bytes |-> <<>>]
  ELSE [rejected |-> FALSE, bytes |-> file.bytes]

\* file.arrayBuffer() settles.  Rejected: the call rejects.  Resolved: the
\* entry is put into zipInput (or pushed into the file's stream), the count
\* goes up and onProgress is called.  When the Zip stream hands its callback
\* an error during the push, the callback rejects and the loop goes on; the
\* library may or may not have terminated the Zip stream by itself
ZipRead ==
  /\ zpc = "reading"
  /\ \E file \in {files[zipIndex + 1]},
        read \in {AwaitArrayBuffer(files[zipIndex + 1], unreadable)},
        err \in IF zipPath = "stream" THEN BOOLEAN ELSE {FALSE},
        terminated \in IF zipPath = "stream" THEN BOOLEAN ELSE {FALSE} :
       IF read.rejected
       THEN /\ ~err /\ ~terminated
            /\ zpc' = "rejected"
            /\ Settle(ReadRejection(file))
            /\ UNCHANGED <<zipIndex, zipInput, zipStream, processedCount, progressCalls>>
       ELSE /\ terminated => err
            /\ zpc' = "loop"
            /\ zipIndex' = zipIndex + 1
            /\ zipInput' =
                 IF zipPath = "stream" THEN zipInput
                 ELSE ObjectSet(zipInput,
                                EntryPath(Opt(zipOptions, "folderName", <<>>),
                                          MapGet(results, file).filename),
                                FileEntry(file, read.bytes,
                                          Opt(zipOptions, "compressionLevel", 6), now))
            /\ zipStream' =
                 IF zipPath = "stream"
                 THEN [zipStream EXCEPT !.entries[Len(zipStream.entries)].data =
                                          [type |-> "bytes", of |-> read.bytes],
                                        !.terminated = @ \/ terminated]
                 ELSE zipStream
            /\ processedCount' = processedCount + 1
            /\ progressCalls' = ProgressCall(progressCalls, zipOptions.onProgress,
                                              processedCount + 1, Len(files),
                                              MapGet(results, file).filename)
            /\ IF err THEN Settle(EncoderRejection("stream")) ELSE UNCHANGED settled
  /\ UNCHANGED <<op, zipOptions, unreadable, zipPath, renameVars>>

\* createZipSync after the loop: the manifest when asked for, zipSync, return;
\* the exception of a zipSync that fails rejects the call
ZipSyncReturn ==
  /\ zpc = "loop"
  /\ LoopDone(zipIndex, files)
  /\ zipPath = "sync"
  /\ zipInput' = WithManifest(zipInput, files, results,
                              Opt(zipOptions, "includeMetadata", FALSE),
                              Opt(zipOptions, "folderName", <<>>), now)
  /\ \E err \in BOOLEAN :
       IF err
       THEN /\ zpc' = "rejected"
            /\ Settle(EncoderRejection("sync"))
       ELSE /\ zpc' = "resolved"
            /\ Settle(ZipResult(Encoded(zipInput', Opt(zipOptions, "compressionLevel", 6), now),
                                files, Opt(zipOptions, "folderName", <<>>), now))
  /\ UNCHANGED <<op, zipOptions, unreadable, zipPath, zipIndex, zipStream, processedCount,
                 progressCalls, renameVars>>

\* createZipAsync after the loop: the manifest when asked for, then zip(...)
\* is started and the promise awaits its callback
ZipAsyncStart ==
  /\ zpc = "loop"
  /\ LoopDone(zipIndex, files)
  /\ zipPath = "async"
  /\ zipInput' = WithManifest(zipInput, files, results,
                              Opt(zipOptions, "includeMetadata", FALSE),
                              Opt(zipOptions, "folderName", <<>>), now)
  /\ zpc' = "zipping"
  /\ UNCHANGED <<op, zipOptions, unreadable, zipPath, zipIndex, zipStream, processedCount,
                 progressCalls, settled, renameVars>>

\* The callback of zip(...): reject with the error, or resolve with the data
ZipAsyncCallback ==
  /\ zpc = "zipping"
  /\ \E err \in BOOLEAN :
       IF err
       THEN /\ zpc' = "rejected"
            /\ Settle(EncoderRejection("async"))
       ELSE /\ zpc' = "resolved"
            /\ Settle(ZipResult(Encoded(zipInput, Opt(zipOptions, "compressionLevel", 6), now),
                                files, Opt(zipOptions, "folderName", <<>>), now))
  /\ UNCHANGED <<op, zipOptions, unreadable, zipPath, zipIndex, zipInput, zipStream,
                 processedCount, progressCalls, renameVars>>

\* processFilesStreaming after the loop: zipStream.end(); the callback of the
\* Zip stream gets an error and rejects, or gets the final chunk and resolves
ZipStreamEnd ==
  /\ zpc = "loop"
  /\ LoopDone(zipIndex, files)
  /\ zipPath = "stream"
  /\ zipStream' = [zipStream EXCEPT !.ended = TRUE]
  /\ \E err \in BOOLEAN :
       IF err
       THEN /\ zpc' = "rejected"
            /\ Settle(EncoderRejection("stream"))
       ELSE /\ zpc' = Over("resolved")
            /\ Settle(ZipResult(Streamed(zipStream), files,
                                Opt(zipOptions, "folderName", <<>>), now))
  /\ UNCHANGED <<op, zipOptions, unreadable, zipPath, zipIndex, zipInput, processedCount,
                 progressCalls, renameVars>>

NextArchive ==
  \/ CallCreateZip
  \/ CallCreateZipSync
  \/ CallCreateZipAsync
  \/ CallCreateZipStream
  \/ ZipNextFile
  \/ ZipRead
  \/ ZipSyncReturn
  \/ ZipAsyncStart
  \/ ZipAsyncCallback
  \/ ZipStreamEnd

SpecArchive == InitArchive /\ [][NextArchive]_vars

-----------------------------------------------------------------------------
(* Properties of archive creation                                          *)

\* The paths whose call has resolved with a ZipResult
ResolvedPaths == {p \in DOMAIN settled : settled[p].state = "resolved"}

\* What the caller asked for
ManifestAsked == Opt(zipOptions, "includeMetadata", FALSE)
RequestedLevel == Opt(zipOptions, "compressionLevel", 6)
RequestedFolder == Opt(zipOptions, "folderName", <<>>)

\* The archive entries that hold the manifest text
ManifestEntries(archive) == {j \in 1..Len(archive) : archive[j].data.type = "text"}

\* C12: for a list of N files (N distinct File objects) and the mapping
\* batchRename produced for it, the archive createZip, createZipSync and
\* createZipAsync build has exactly N entries, and N + 1 when includeMetadata
\* is asked for, exactly one of them the manifest; every file has its entry,
\* under its new name and with its own bytes, so no entry has overwritten
\* another.
C12_ArchiveHoldsEveryFile ==
  \A p \in ResolvedPaths \cap {"sync", "async"} :
    (/\ Cardinality(Range(files)) = Len(files)
     /\ \A i \in 1..Len(files) : MapHas(results, files[i])) =>
      /\ Len(settled[p].archive) = Len(files) + (IF ManifestAsked THEN 1 ELSE 0)
      /\ \A i \in 1..Len(files) :
           \E j \in 1..Len(settled[p].archive) :
             /\ settled[p].archive[j].path =
                  EntryPath(RequestedFolder, MapGet(results, files[i]).filename)
             /\ settled[p].archive[j].data = [type |-> "bytes", of |-> files[i].bytes]
      /\ Cardinality(ManifestEntries(settled[p].archive)) = (IF ManifestAsked THEN 1 ELSE 0)

\* The part of the name after its last dot, in lower case, is one of the
\* already-compressed types
AlreadyCompressed(name) ==
  \E k \in 1..Len(name) :
    /\ name[k] = "."
    /\ \A j \in (k + 1)..Len(name) : name[j] # "."
    /\ ToLowerCase(SubSeq(name, k + 1, Len(name))) \in INCOMPRESSIBLE_TYPES

\* C13: in every archive a call resolves with, on each of the three paths, the
\* entry of a file has level 0 when the lower-cased extension of the file's
\* ORIGINAL name is an already-compressed type, and otherwise the
\* compressionLevel of the options, 6 when none was supplied; the manifest
\* has the level of the options. The new name's extension plays no role.
C13_LevelByOriginalExtension ==
  \A p \in ResolvedPaths :
    \A j \in 1..Len(settled[p].archive) :
      \E entry \in {settled[p].archive[j]} :
        /\ entry.data.type = "bytes" =>
             \E f \in Range(files) :
               /\ f.bytes = entry.data.of
               /\ entry.level = IF AlreadyCompressed(f.name) THEN 0 ELSE RequestedLevel
        /\ entry.data.type = "text" => entry.level = RequestedLevel

\* C13 happens: a.JPG and metadata.txt were both renamed to .txt names and
\* archived with compressionLevel 9; the photo is stored, the text has level 9
C13_Witness ==
  /\ currentTemplate = T_originaltxt
  /\ RequestedLevel = 9
  /\ ~ManifestAsked
  /\ "sync" \in ResolvedPaths
  /\ \E i, j \in 1..Len(settled["sync"].archive) :
       /\ settled["sync"].archive[i].path = EntryPath(RequestedFolder, <<"a", ".", "t", "x", "t">>)
       /\ settled["sync"].archive[i].data.of = A_photo.bytes
       /\ settled["sync"].archive[i].level = 0
       /\ settled["sync"].archive[j].path = EntryPath(RequestedFolder, S_metadatatxt)
       /\ settled["sync"].archive[j].data.of = A_notes.bytes
       /\ settled["sync"].archive[j].level = 9

\* The entries of the archive a path resolved with, as a set: path, content
\* and level (level 0 is stored)
EntrySet(p) ==
  { [path |-> settled[p].archive[j].path, data |-> settled[p].archive[j].data,
     level |-> settled[p].archive[j].level] : j \in 1..Len(settled[p].archive) }

\* C14: on the same files, mapping and options, createZipSync, createZipAsync
\* and createZipStream resolve with the same set of archive entries (the same
\* paths, the same level and so the same stored-or-compressed choice for each
\* entry, the same content), and each archive holds the manifest exactly when
\* includeMetadata was asked for.
C14_PathsGiveSameEntries ==
  /\ \A p, q \in ResolvedPaths : EntrySet(p) = EntrySet(q)
  /\ \A p \in ResolvedPaths : (ManifestEntries(settled[p].archive) # {}) <=> ManifestAsked

\* C15: when the read of a file the archive is to hold fails, the call ends
\* in rejection on every path: none of createZipSync, createZipAsync and
\* createZipStream resolves with a ZipResult, whatever was read before.
C15_ReadFailureRejects ==
  \A p \in DOMAIN settled :
    (\E i \in 1..Len(files) : MapHas(results, files[i]) /\ files[i] \in unreadable) =>
      settled[p].state = "rejected"

\* C15 happens: createZipStream had added and written a.JPG when the read of
\* metadata.txt failed; the call is rejected and the stream was never ended
C15_Witness ==
  /\ files = <<A_photo, A_notes>>
  /\ unreadable = {A_notes}
  /\ zipPath = "stream"
  /\ zpc = "rejected"
  /\ settled["stream"] = ReadRejection(A_notes)
  /\ Len(zipStream.entries) = 2
  /\ zipStream.entries[1].data = [type |-> "bytes", of |-> A_photo.bytes]
  /\ ~zipStream.ended

-----------------------------------------------------------------------------
(* generateFilename on original filenames of every shape                   *)

\* Original filenames: upper-case and lower-case extension, no dot, the only
\* dot first, a dot last, several dots
S_IMGJPG == <<"I", "M", "G", ".", "J", "P", "G">>
S_hidden == <<".", "h", "i", "d", "d", "e", "n">>
S_dotlast == <<"a", ".">>
S_abc == <<"a", ".", "b", ".", "c">>
NameShapes == {S_IMGJPG, S_IMGjpg, S_noext, S_hidden, S_dotlast, S_abc}

\* Templates of {original}, {ext}, {custom} and a literal, one or two pieces
NamePieces == {Braced(N_original), Braced(N_ext), Braced(N_custom), <<"x">>}
NameTemplates == NamePieces \cup {p \o q : p \in NamePieces, q \in NamePieces}

\* customText 'c', with the extension preserved (the default) or not
CustomC == [NoOptions EXCEPT !.has = {"customText"}, !.customText = <<"c">>]
CustomCNoExtension ==
  [NoOptions EXCEPT !.has = {"customText", "preserveExtension"}, !.customText = <<"c">>,
                    !.preserveExtension = FALSE]
NameOptions == {CustomC, CustomCNoExtension}

InitNames ==
  /\ lastIndex = 0
  /\ now = 0
  /\ op = "none"
  /\ currentTemplate \in NameTemplates
  /\ argExif = NullExif
  /\ argName \in NameShapes
  /\ argOptions \in NameOptions
  /\ ret = NoResult
  /\ history = <<>>
  /\ argValue = <<>>
  /\ IdleArchive
  /\ IdlePage
  /\ IdleConflict
  /\ IdleBatch

SpecNames == InitNames /\ [][NextGen]_vars

\* C16: with preserveExtension true and an original filename that has an
\* extension, generateFilename returns the sanitized base name, a dot and the
\* original extension in lower case; with preserveExtension false, or without
\* an extension, it returns the sanitized base name and nothing more.
C16_ExtensionAppendedLowerCase ==
  op = "generateFilename" =>
    \E base \in {sanitizeForFilename(
                   stripUnresolved(resolveTokens(currentTemplate, argExif, argName,
                                                 argOptions, now)).s)},
       ext \in {parseFilename(argName).ext} :
      ret.filename = IF Opt(argOptions, "preserveExtension", TRUE) /\ ext # <<>>
                     THEN base \o <<".">> \o ToLowerCase(ext)
                     ELSE base

\* The filename split at its last dot; no dot: the whole name and no extension
SplitAtLastDot(filename) ==
  IF "." \notin Range(filename) THEN [name |-> filename, ext |-> <<>>]
  ELSE LET k == CHOOSE i \in 1..Len(filename) :
                  filename[i] = "." /\ \A j \in (i + 1)..Len(filename) : filename[j] # "."
       IN  [name |-> SubSeq(filename, 1, k - 1), ext |-> SubSeq(filename, k + 1, Len(filename))]

\* The same, but a filename whose last dot is its first character counts as
\* having no extension
SplitAtLastInnerDot(filename) ==
  IF filename # <<>> /\ filename[1] = "." /\ "." \notin Range(Tail(filename))
  THEN [name |-> filename, ext |-> <<>>]
  ELSE SplitAtLastDot(filename)

\* The template with {original}, {ext} and {custom} replaced by the parts of a
\* split and the custom text
Substituted(template, split, customText) ==
  ReplaceAll(ReplaceAll(ReplaceAll(template, Braced(N_original), split.name),
                        Braced(N_ext), split.ext),
             Braced(N_custom), customText)

\* C20 as claimed: {original} and {ext} are the parts of the original filename
\* before and after its LAST dot, for every filename with a dot, also when the
\* only dot is the first character or the dot is the last character; without
\* a dot {ext} is empty and {original} the whole filename.
C20_SplitAtLastDot ==
  op = "generateFilename" =>
    BaseOf(ret, argName, argOptions) =
      sanitizeForFilename(Substituted(currentTemplate, SplitAtLastDot(argName),
                                      Opt(argOptions, "customText", <<>>)))

\* C20 as amended: {original} and {ext} are the parts before and after the
\* last dot of the original filename when that dot is not its first
\* character (a filename ending in a dot has an empty {ext}); a filename with
\* no dot, or whose only dot is its first character, gives an empty {ext} and
\* the whole filename as {original}.
C20_SplitAtLastInnerDot ==
  op = "generateFilename" =>
    BaseOf(ret, argName, argOptions) =
      sanitizeForFilename(Substituted(currentTemplate, SplitAtLastInnerDot(argName),
                                      Opt(argOptions, "customText", <<>>)))

\* C20 happens: {original}{ext} on the filename .hidden gives .hidden, the
\* whole filename and an empty extension; nothing is appended
C20_Witness ==
  /\ op = "generateFilename"
  /\ currentTemplate = Braced(N_original) \o Braced(N_ext)
  /\ argName = S_hidden
  /\ ret.filename = S_hidden

-----------------------------------------------------------------------------
(* Properties of the image, GPS and camera tokens                          *)

\* C17: {orientation} never produces a warning. The result has the warnings
\* the template without the token gives, and its filename is the one of the
\* template with the token replaced by the orientation of the metadata when
\* there is one, and by 1 when the orientation is absent or the metadata
\* record is null. (The orientation of a metadata record is never 0:
\* normalizeExifData stores `rawExif.Orientation || 1`.)
C17_OrientationDefaultsSilently ==
  (op = "generateFilename" /\ Includes(currentTemplate, Braced(N_orientation))) =>
    /\ ~ret.threw
    /\ ret.warnings =
         generateFilename(ReplaceAll(currentTemplate, Braced(N_orientation), <<>>),
                          argExif, argName, argOptions, now).warnings
    /\ ret.filename =
         generateFilename(ReplaceAll(currentTemplate, Braced(N_orientation),
                                     IF Has(argExif, "orientation")
                                     THEN NumToStr(argExif.orientation) ELSE <<"1">>),
                          argExif, argName, argOptions, now).filename

\* C17 happens: {orientation}{orientation} without metadata gives 11.jpg and
\* no warning
C17_Witness ==
  /\ op = "generateFilename"
  /\ currentTemplate = Braced(N_orientation) \o Braced(N_orientation)
  /\ argExif = NullExif
  /\ argName = S_IMGjpg
  /\ ret.filename = <<"1", "1", ".", "j", "p", "g">>
  /\ ret.warnings = <<>>

\* The numeric tokens among the metadata tokens
NumericTokens ==
  {t \in MetadataTokens :
     t.name \in {N_iso, N_aperture, N_focal, N_width, N_height, N_dimensions,
                 N_lat, N_lng, N_gps}}

\* C19: the missing-data warning of a numeric token (iso, aperture, focal,
\* width, height, dimensions, lat, lng, gps) is recorded only when a value the
\* token needs is null or absent: when every such value is present, the value
\* 0 included (latitude 0, longitude 0), the result carries no warning of
\* that token.
C19_NoWarningWhenValuePresent ==
  op = "generateFilename" =>
    \A t \in NumericTokens :
      (Includes(currentTemplate, Braced(t.name)) /\ \A f \in t.needs : Has(argExif, f)) =>
        WarningsWith(ret, t.text) = <<>>

-----------------------------------------------------------------------------
(* generateFilename on counter tokens                                      *)

\* {counter}, {counter:N} for the widths 5, 0, 05 and 12, and a literal
CounterPieces ==
  {Braced(N_counter), Braced(N_counter5), Braced(N_counter0), Braced(N_counter05),
   Braced(N_counter12), <<"_">>}
CounterTemplates == CounterPieces \cup {p \o q : p \in CounterPieces, q \in CounterPieces}

\* counter not supplied, 0, 7, 42 or 123456; counterPadding not supplied, 0, 2 or 5
CounterOptions ==
  { [NoOptions EXCEPT !.has = c.has \cup w.has, !.counter = c.value,
                      !.counterPadding = w.value] :
      c \in { [has |-> {}, value |-> 1], [has |-> {"counter"}, value |-> 0],
              [has |-> {"counter"}, value |-> 7],
              [has |-> {"counter"}, value |-> 42], [has |-> {"counter"}, value |-> 123456] },
      w \in { [has |-> {}, value |-> 3], [has |-> {"counterPadding"}, value |-> 0],
              [has |-> {"counterPadding"}, value |-> 2],
              [has |-> {"counterPadding"}, value |-> 5] } }

InitCounter ==
  /\ lastIndex = 0
  /\ now = 0
  /\ op = "none"
  /\ currentTemplate \in CounterTemplates
  /\ argExif = NullExif
  /\ argName = S_noext
  /\ argOptions \in CounterOptions
  /\ ret = NoResult
  /\ history = <<>>
  /\ argValue = <<>>
  /\ IdleArchive
  /\ IdlePage
  /\ IdleConflict
  /\ IdleBatch

SpecCounter == InitCounter /\ [][NextGen]_vars

\* The decimal digits of n, with zeros put before them up to the width; all
\* digits when there are more than the width
ZeroPadded(n, width) ==
  IF Len(NumToStr(n)) >= width THEN NumToStr(n)
  ELSE [i \in 1..(width - Len(NumToStr(n))) |-> "0"] \o NumToStr(n)

\* The template read once from the left: {counter} rendered with the default
\* width, {counter:N} with the width N, everything else as it stands
RECURSIVE CounterRendered(_, _, _, _)
CounterRendered(s, i, n, defaultWidth) ==
  IF i > Len(s) THEN <<>>
  ELSE IF OccursAt(s, Braced(N_counter), i)
       THEN ZeroPadded(n, defaultWidth)
            \o CounterRendered(s, i + Len(Braced(N_counter)), n, defaultWidth)
       ELSE IF \E k \in (i + 9)..Len(s) :
                 /\ OccursAt(s, <<"{">> \o N_counter \o <<":">>, i)
                 /\ s[k] = "}"
                 /\ k > i + 9
                 /\ \A j \in (i + 9)..(k - 1) : s[j] \in Digits
            THEN LET k == CHOOSE k \in (i + 9)..Len(s) :
                            s[k] = "}" /\ \A j \in (i + 9)..(k - 1) : s[j] \in Digits
                 IN  ZeroPadded(n, ParseInt(SubSeq(s, i + 9, k - 1)))
                     \o CounterRendered(s, k + 1, n, defaultWidth)
            ELSE <<s[i]>> \o CounterRendered(s, i + 1, n, defaultWidth)

\* C18: {counter} is the counter of the options in decimal, padded with zeros
\* on the left to counterPadding digits (3 when none is supplied);
\* {counter:N} is padded to N digits whatever counterPadding is; a counter
\* with more digits than the width is rendered in full; and the two forms in
\* one template are rendered each with its own width.
C18_CounterPaddedToItsWidth ==
  op = "generateFilename" =>
    /\ ret.warnings = <<>>
    /\ ret.filename =
         sanitizeForFilename(CounterRendered(currentTemplate, 1,
                                             Opt(argOptions, "counter", 1),
                                             Opt(argOptions, "counterPadding", 3)))

\* C18 happens: {counter}{counter:5} with counter 42 and counterPadding 2 is
\* 4200042; and {counter:0}{counter} with counter 123456 and no counterPadding
\* is the six digits twice
C18_Witness ==
  /\ op = "generateFilename"
  /\ \/ /\ currentTemplate = Braced(N_counter) \o Braced(N_counter5)
        /\ argOptions.counter = 42
        /\ argOptions.counterPadding = 2
        /\ ret.filename = <<"4", "2", "0", "0", "0", "4", "2">>
     \/ /\ currentTemplate = Braced(N_counter0) \o Braced(N_counter)
        /\ argOptions.counter = 123456
        /\ "counterPadding" \notin argOptions.has
        /\ ret.filename = <<"1", "2", "3", "4", "5", "6", "1", "2", "3", "4", "5", "6">>

-----------------------------------------------------------------------------
(* Properties of the order of the steps of archive creation                *)

\* The positions of the list whose file the mapping holds: the files to read
MappedPositions == {i \in 1..Len(files) : MapHas(results, files[i])}

\* A step of the running call in which finalization starts: createZipSync
\* leaves its loop for zipSync, createZipAsync starts zip(...), or
\* processFilesStreaming calls zipStream.end()
StartsFinalizing ==
  /\ zipPath' = zipPath
  /\ \/ zipPath = "sync" /\ zpc = "loop" /\ zpc' \in {"resolved", "rejected"}
     \/ zpc # "zipping" /\ zpc' = "zipping"
     \/ ~zipStream.ended /\ zipStream'.ended

\* Finalization of the running call has started
Finalizing ==
  \/ zpc = "zipping"
  \/ zipStream.ended
  \/ zipPath \in {"sync", "async"} /\ zpc \in {"resolved", "rejected"}
       /\ (settled[zipPath].state = "resolved" \/ settled[zipPath].reason = "encoder")

\* A step of the running call that adds an entry or gives an entry its bytes
AddsEntry ==
  /\ zipPath' = zipPath
  /\ zpc # "idle"
  /\ zipInput' # zipInput \/ zipStream'.entries # zipStream.entries

\* A step in which the promise of the running call is resolved
Resolves ==
  /\ zipPath' = zipPath
  /\ zipPath \notin ResolvedPaths
  /\ zipPath \in DOMAIN settled'
  /\ settled'[zipPath].state = "resolved"

\* C21: on every path the steps come in the order collecting, finalizing,
\* complete.  When finalization starts (zipSync or zip is invoked, or
\* zipStream.end() is called) the loop has passed every file, every file the
\* mapping holds has been read and no entry awaits its bytes; once
\* finalization has started no entry is added; and the promise is resolved
\* only in or after the step that finalizes.
C21_CollectThenFinalizeThenResolve ==
  [][ /\ StartsFinalizing =>
           /\ zipIndex = Len(files)
           /\ processedCount = Cardinality(MappedPositions)
           /\ \A j \in 1..Len(zipStream.entries) : zipStream.entries[j].data.type = "bytes"
           /\ zipPath # "stream" => Len(zipInput) <= Cardinality(MappedPositions)
      /\ (Finalizing /\ zipPath' = zipPath) => UNCHANGED <<zipInput, zipStream, processedCount>>
      /\ (AddsEntry /\ ~StartsFinalizing) => zpc \in {"loop", "reading"} /\ ~Finalizing
      /\ Resolves => Finalizing \/ StartsFinalizing ]_vars

\* C21 happens: createZipStream read both files, ended the stream after the
\* second entry had its bytes, and resolved
C21_Witness ==
  /\ files = <<A_photo, A_big>>
  /\ Len(results) = 2
  /\ zipPath = "stream"
  /\ zpc = "resolved"
  /\ processedCount = 2
  /\ zipStream.ended
  /\ Len(settled["stream"].archive) = 2

\* C22: whenever the promise of createZipStream is rejected, because a read
\* or the encoder failed, the Zip stream has been closed: end() was called or
\* the stream was terminated, so that no open stream holds an entry that was
\* added and never finished.
C22_StreamClosedOnFailure ==
  ("stream" \in DOMAIN settled /\ settled["stream"].state = "rejected" /\ zipPath = "stream")
    => zipStream.ended \/ zipStream.terminated

-----------------------------------------------------------------------------
(* Properties of the progress callback of archive creation                 *)

\* The options of the call without their onProgress
WithoutProgress == [zipOptions EXCEPT !.onProgress = FALSE]

\* What createZipSync and createZipAsync collect from position i on when no
\* callback is supplied: the zipInput after the loop
RECURSIVE CollectedFrom(_, _, _)
CollectedFrom(i, obj, options) ==
  IF i > Len(files) THEN obj
  ELSE IF ~MapHas(results, files[i]) THEN CollectedFrom(i + 1, obj, options)
  ELSE CollectedFrom(i + 1,
                     ObjectSet(obj,
                               EntryPath(Opt(options, "folderName", <<>>),
                                         MapGet(results, files[i]).filename),
                               FileEntry(files[i], files[i].bytes,
                                         Opt(options, "compressionLevel", 6), now)),
                     options)

\* What processFilesStreaming adds from position i on when no callback is
\* supplied: the entries of the Zip stream after the loop
RECURSIVE AddedFrom(_, _, _)
AddedFrom(i, entries, options) ==
  IF i > Len(files) THEN entries
  ELSE IF ~MapHas(results, files[i]) THEN AddedFrom(i + 1, entries, options)
  ELSE AddedFrom(i + 1,
                 Append(entries,
                        [path |-> EntryPath(Opt(options, "folderName", <<>>),
                                            MapGet(results, files[i]).filename),
                         encoder |-> IF getFileExtension(files[i].name) \in INCOMPRESSIBLE_TYPES
                                     THEN "ZipPassThrough" ELSE "ZipDeflate",
                         level |-> Opt(options, "compressionLevel", 6),
                         mtime |-> MtimeFor(files[i], now),
                         data |-> [type |-> "bytes", of |-> files[i].bytes]]),
                 options)

\* The ZipResult of a call on path p under the given options
ResultUnder(p, options) ==
  ZipResult(IF p = "stream"
            THEN Streamed([NewZipStream EXCEPT !.entries = AddedFrom(1, <<>>, options)])
            ELSE Encoded(WithManifest(CollectedFrom(1, <<>>, options), files, results,
                                      Opt(options, "includeMetadata", FALSE),
                                      Opt(options, "folderName", <<>>), now),
                         Opt(options, "compressionLevel", 6), now),
            files, Opt(options, "folderName", <<>>), now)

\* C23: onProgress is a side channel.  It is called once after each file's
\* entry is added (as many calls as files processed, none when no callback is
\* supplied); the k-th call reports the processed count k, so the counts
\* start at 1 and go up by 1; no count exceeds the total reported with it; and
\* the ZipResult a call resolves with, its archive entries included, is the
\* one the same call gives when onProgress is omitted.
C23_ProgressIsSideChannel ==
  /\ Len(progressCalls) = (IF zipOptions.onProgress THEN processedCount ELSE 0)
  /\ processedCount = Cardinality({i \in MappedPositions : i <= zipIndex})
  /\ \A k \in 1..Len(progressCalls) :
       /\ progressCalls[k].current = k
       /\ progressCalls[k].current <= progressCalls[k].total
       /\ progressCalls[k].total = Len(files)
  /\ \A p \in ResolvedPaths : settled[p] = ResultUnder(p, WithoutProgress)

\* C23 happens: createZipAsync was given a callback, called it for each of
\* two files with the counts 1 and 2 of 2, and resolved
C23_Witness ==
  /\ zipOptions.onProgress
  /\ zipPath = "async"
  /\ "async" \in ResolvedPaths
  /\ Len(files) = 2
  /\ Len(progressCalls) = 2
  /\ progressCalls[2].current = 2
  /\ progressCalls[2].total = 2
  /\ Len(settled["async"].archive) >= 2

\* The archive entries that hold the bytes of a file
FileEntries(archive) == {j \in 1..Len(archive) : archive[j].data.type = "bytes"}

\* C27: the fileCount of the ZipResult a call resolves with is the number of
\* file entries written to its archive, on each of the three paths, also when
\* the mapping does not hold every file of the list or two positions of the
\* list have the same entry path.
C27_FileCountIsEntriesWritten ==
  \A p \in ResolvedPaths :
    settled[p].fileCount = Cardinality(FileEntries(settled[p].archive))

-----------------------------------------------------------------------------
(* generateFilename and batchRename on text that comes from outside: the   *)
(* original filename, the custom text and the metadata strings             *)

\* Original filenames: a space in the extension, a colon in the extension,
\* brace-delimited text before the extension, a space before the extension
S_ajg == <<"a", ".", "j", " ", "g">>
S_abc2 == <<"a", ".", "b", ":", "c">>
S_customjpg == Braced(N_custom) \o <<".", "j", "p", "g">>
S_abjpg == <<"a", " ", "b", ".", "j", "p", "g">>
TextNames == {S_IMGjpg, S_ajg, S_abc2, S_customjpg, S_abjpg}

\* customText: 'c', '{x}', '{custom}', 'a b' and '$&'
CustomOf(text) == [NoOptions EXCEPT !.has = {"customText"}, !.customText = text]
TextCustoms == { <<"c">>, <<"{", "x", "}">>, Braced(N_custom), <<"a", " ", "b">>, <<"$", "&">> }
TextOptions == {CustomOf(text) : text \in TextCustoms}

\* Metadata whose strings hold no word character; an exposure time that is a
\* string without a number; an exposure time that is a negative number
PunctuationExif ==
  [FullExif EXCEPT !.make = <<"!", "!">>, !.model = <<"?">>, !.lensModel = <<".">>]
WordExposureExif ==
  [FullExif EXCEPT !.exposureTime = [type |-> "string", nan |-> FALSE, num |-> 0, den |-> 1,
                                     text |-> <<"a", "b", "c">>]]
NegativeExposureExif ==
  [FullExif EXCEPT !.exposureTime = [type |-> "number", nan |-> FALSE, num |-> -1, den |-> 1,
                                     text |-> <<>>]]
TextExifs == {NullExif, FullExif, PunctuationExif, WordExposureExif, NegativeExposureExif}

\* Templates of one metadata token, alone or after a literal
MetaTemplates ==
  {Braced(t.name) : t \in MetadataTokens} \cup {<<"x">> \o Braced(t.name) : t \in MetadataTokens}

\* File objects with such names
F_ajg == [id |-> 5, name |-> S_ajg]
F_customjpg == [id |-> 6, name |-> S_customjpg]
F_abjpg == [id |-> 7, name |-> S_abjpg]
TextFiles == {F_ajg, F_customjpg, F_abjpg}

\* One call of generateFilename on such names and custom texts, or on such
\* metadata; or a batch of such files
InitText ==
  /\ lastIndex = 0
  /\ now = 0
  /\ op = "none"
  /\ ret = NoResult
  /\ history = <<>>
  /\ argValue = <<>>
  /\ IdleArchive
  /\ IdlePage
  /\ IdleConflict
  /\ run = 1
  /\ firstResults = <<>>
  /\ exifDataMap = <<>>
  /\ \/ /\ currentTemplate \in NameTemplates
        /\ argExif = NullExif
        /\ argName \in TextNames
        /\ argOptions \in TextOptions
        /\ files = <<>>
        /\ index = 0 /\ usedFilenames = {} /\ results = <<>> /\ calls = <<>> /\ pc = "idle"
     \/ /\ currentTemplate \in MetaTemplates
        /\ argExif \in TextExifs
        /\ argName = S_IMGjpg
        /\ argOptions = NoOptions
        /\ files = <<>>
        /\ index = 0 /\ usedFilenames = {} /\ results = <<>> /\ calls = <<>> /\ pc = "idle"
     \/ /\ currentTemplate \in {T_original, T_fixed, Braced(N_custom)}
        /\ argExif = NullExif
        /\ argName = <<>>
        /\ argOptions \in TextOptions
        /\ files \in ListsUpTo(TextFiles, MaxFiles - 1)
        /\ EnterBatch

SpecText == InitText /\ [][NextRename]_vars

\* A character that a filename must not hold
Unsafe(c) == c \in IllegalChars \cup SpaceChars

\* C24: the filename generateFilename returns, and every filename of the
\* mapping batchRename builds, holds none of < > : " / \ | ? * and no
\* whitespace, whatever the template, the custom text, the metadata and the
\* original filename are.
C24_FilenamesAreSafe ==
  /\ (op = "generateFilename" /\ ~ret.threw) =>
       \A k \in 1..Len(ret.filename) : ~Unsafe(ret.filename[k])
  /\ \A i \in 1..Len(results) :
       \A k \in 1..Len(results[i].value.filename) : ~Unsafe(results[i].value.filename[k])

\* The template with each {original}, {ext} and {custom} replaced, in one pass
\* from left to right, by the text it stands for, taken as it is
RECURSIVE InsertedVerbatim(_, _, _, _)
InsertedVerbatim(template, i, split, customText) ==
  IF i > Len(template) THEN <<>>
  ELSE IF OccursAt(template, Braced(N_original), i)
       THEN split.name \o InsertedVerbatim(template, i + Len(Braced(N_original)), split, customText)
  ELSE IF OccursAt(template, Braced(N_ext), i)
       THEN split.ext \o InsertedVerbatim(template, i + Len(Braced(N_ext)), split, customText)
  ELSE IF OccursAt(template, Braced(N_custom), i)
       THEN customText \o InsertedVerbatim(template, i + Len(Braced(N_custom)), split, customText)
  ELSE <<template[i]>> \o InsertedVerbatim(template, i + 1, split, customText)

\* C25: for a template validateTemplate reports valid, the name, the extension
\* and the custom text are inserted as they are, also when they hold
\* brace-delimited text: the base name is the sanitized template with each
\* token replaced by its text, and no "Unresolved tokens" warning is recorded.
C25_InsertedTextIsNotAToken ==
  (op = "generateFilename" /\ argExif = NullExif /\ currentTemplate \in NameTemplates
     /\ validateTemplate(currentTemplate, 0).isValid) =>
    /\ BaseOf(ret, argName, argOptions) =
         sanitizeForFilename(InsertedVerbatim(currentTemplate, 1, parseFilename(argName),
                                              Opt(argOptions, "customText", <<>>)))
    /\ WarningsWith(ret, "Unresolved tokens: ") = <<>>

\* C26: when a metadata-backed token other than {orientation} is replaced by
\* the empty string (the base name is the one the template without the token
\* gives), the result carries the warning of that token.
C26_EmptyReplacementWarns ==
  (op = "generateFilename" /\ currentTemplate \in MetaTemplates) =>
    \A t \in MetadataTokens :
      (/\ Includes(currentTemplate, Braced(t.name))
       /\ BaseOf(ret, argName, argOptions) =
            sanitizeForFilename(ReplaceAll(currentTemplate, Braced(t.name), <<>>))) =>
        Len(WarningsWith(ret, t.text)) >= 1

-----------------------------------------------------------------------------
(* resolveFilenameConflict on its own, one loop iteration at a time        *)

\* The highest counter the loop is followed to
MaxSuffix == 8

\* Candidates that collide: a name with an extension, one without, one whose
\* only dot comes first
S_dotjpg == <<".", "j", "p", "g">>
ConflictCandidates == {S_shotjpg, S_noext, S_dotjpg}

\* Names a batch may have used
S_shot2jpg == <<"s", "h", "o", "t", "_", "2", ".", "j", "p", "g">>
S_shot3jpg == <<"s", "h", "o", "t", "_", "3", ".", "j", "p", "g">>
S_noext1 == S_noext \o <<"_", "1">>
S_dotjpg1 == S_dotjpg \o <<"_", "1">>
UsedNames == {S_shotjpg, S_shot1jpg, S_shot2jpg, S_shot3jpg, S_noext1, S_dotjpg1}

InitConflict ==
  /\ lastIndex = 0
  /\ now = 0
  /\ op = "none"
  /\ currentTemplate = <<>>
  /\ argExif = NullExif
  /\ argName = <<>>
  /\ argOptions = NoOptions
  /\ ret = NoResult
  /\ history = <<>>
  /\ argValue = <<>>
  /\ IdleArchive
  /\ IdlePage
  /\ IdleBatch
  /\ \E filename \in ConflictCandidates, used \in SUBSET UsedNames :
       conflict = [pc |-> "called",
                   result |-> [NoResult EXCEPT !.filename = filename, !.success = TRUE],
                   used |-> used]

\* const { name, ext } = parseFilename(result.filename); let counter = 1
EnterResolveFilenameConflict ==
  /\ conflict.pc = "called"
  /\ \E parsed \in {parseFilename(conflict.result.filename)} :
       conflict' = [pc |-> "loop", result |-> conflict.result, used |-> conflict.used,
                    name |-> parsed.name, ext |-> parsed.ext, counter |-> 1,
                    newFilename |-> <<>>]
  /\ UNCHANGED <<lastIndex, now, callVars, batchVars, history, argValue, pageVars,
                 archiveVars>>

\* One pass of the do-while body and its test:
\* newFilename = ...; counter++; while (usedFilenames.has(newFilename))
ConflictLoop ==
  /\ conflict.pc = "loop"
  /\ conflict.counter <= MaxSuffix
  /\ \E newFilename \in {Candidate(conflict.name, conflict.ext, conflict.counter)} :
       conflict' = [conflict EXCEPT !.newFilename = newFilename,
                                    !.counter = @ + 1,
                                    !.pc = IF newFilename \in conflict.used THEN "loop"
                                           ELSE "return"]
  /\ UNCHANGED <<lastIndex, now, callVars, batchVars, history, argValue, pageVars,
                 archiveVars>>

\* return { ...result, filename: newFilename, warnings: [...] }
ConflictReturn ==
  /\ conflict.pc = "return"
  /\ conflict' = [conflict EXCEPT !.pc = "done"]
  /\ op' = "resolveFilenameConflict"
  /\ ret' = [conflict.result EXCEPT
               !.filename = conflict.newFilename,
               !.warnings = Append(@, Warning("Filename conflict resolved with numeric suffix"))]
  /\ history' = Append(history, [op |-> "resolveFilenameConflict", template |-> <<>>])
  /\ UNCHANGED <<lastIndex, now, currentTemplate, argExif, argName, argOptions, batchVars,
                 argValue, pageVars, archiveVars>>

NextConflict == EnterResolveFilenameConflict \/ ConflictLoop \/ ConflictReturn

SpecConflict == InitConflict /\ [][NextConflict]_vars

\* The loop is not held up: a call that can take a step takes it
FairConflict == SpecConflict /\ WF_vars(NextConflict)

\* The candidates the loop has built so far
SuffixesTried == IF conflict.pc \in {"loop", "return", "done"} THEN conflict.counter - 1 ELSE 0

\* C29: the do-while loop of resolveFilenameConflict ends for every finite set
\* of used filenames: it builds at most as many candidates as the set has
\* names, and one more, and then the call returns a name the set does not
\* hold.
C29_ConflictLoopTerminates ==
  /\ [](SuffixesTried <= Cardinality(conflict.used) + 1)
  /\ <>(conflict.pc = "done")
  /\ [](conflict.pc = "done" => ret.filename \notin conflict.used)

\* C29 happens: the set holds shot_1.jpg, shot_2.jpg and shot_3.jpg and more,
\* the loop built four candidates and returned shot_4.jpg
C29_Witness ==
  /\ conflict.pc = "done"
  /\ {S_shot1jpg, S_shot2jpg, S_shot3jpg} \subseteq conflict.used
  /\ SuffixesTried = 4
  /\ ret.filename = <<"s", "h", "o", "t", "_", "4", ".", "j", "p", "g">>

-----------------------------------------------------------------------------
(* The page: src/src/routes/+page.svelte with the files store and the      *)
(* usage store                                                             *)

\* A Photo of filesStore.photos: id, the File, metadata.exif (null until it
\* is set), selected, and newFileName and warnings as setRenameResult left
\* them (newFileName <<>> while none was set)
NewPhoto(id, file) ==
  [id |-> id, file |-> file, exif |-> NullExif, selected |-> FALSE,
   newFileName |-> <<>>, warnings |-> <<>>]

\* originalFileName.split('.')[0]
BeforeFirstDot(s) ==
  IF \A k \in 1..Len(s) : s[k] # "." THEN s
  ELSE SubSeq(s, 1, (CHOOSE k \in 1..Len(s) :
                       s[k] = "." /\ \A j \in 1..(k - 1) : s[j] # ".") - 1)

\* getFileExtension of the page: the part after the last dot, 'jpg' without a dot
PageFileExtension(filename) ==
  LET lastDot == LastIndexOf(filename, ".")
  IN  IF lastDot = -1 THEN S_jpg ELSE From(filename, lastDot + 2)

RECURSIVE TrimZeros(_)
TrimZeros(ds) ==
  IF ds # <<>> /\ ds[Len(ds)] = "0" THEN TrimZeros(SubSeq(ds, 1, Len(ds) - 1)) ELSE ds

\* String(x) of the positive number x.num / x.den, den a power of ten
NumberToString(x) ==
  LET whole == NatToStr(x.num \div x.den)
      frac == TrimZeros(PadStart(NatToStr(x.num % x.den), Len(NatToStr(x.den)) - 1))
  IN  IF frac = <<>> THEN whole ELSE whole \o <<".">> \o frac

\* a || b on strings
OrElse(a, b) == IF a # <<>> THEN a ELSE b

\* sanitizeForFilename(exifData.field) of a string field (null gives '')
SanitizedText(exif, f) == IF Has(exif, f) THEN sanitizeForFilename(exif[f]) ELSE <<>>

\* sanitizeForFilename(exifData.field) of a number field (null gives '')
SanitizedNumber(exif, f) ==
  IF Has(exif, f) THEN sanitizeForFilename(NumToStr(exif[f])) ELSE <<>>

\* result.replace(/{counter:(\d+)}/g, (match, digits) =>
\*   String(counter).padStart(parseInt(digits, 10) || 3, '0'))
RECURSIVE ApplyCounterPadded(_, _, _)
ApplyCounterPadded(s, counter, i) ==
  IF i > Len(s) THEN <<>>
  ELSE LET open == <<"{">> \o N_counter \o <<":">>
           digits == DigitRun(From(s, i + Len(open)))
           close == i + Len(open) + Len(digits)
       IN  IF /\ OccursAt(s, open, i)
              /\ digits # <<>>
              /\ close <= Len(s)
              /\ s[close] = "}"
           THEN PadStart(NumToStr(counter),
                         IF ParseInt(digits) # 0 THEN ParseInt(digits) ELSE 3)
                \o ApplyCounterPadded(s, counter, close + 1)
           ELSE <<s[i]>> \o ApplyCounterPadded(s, counter, i + 1)

\* applyTemplate.  The date of toISOString is the one of the local fields:
\* the model's time zone is UTC
applyTemplate(template, exif, counter, originalFileName) ==
  IF exif.isNull THEN BeforeFirstDot(originalFileName)
  ELSE
  LET date == exif.dateTaken
      dated == Truthy(exif, "dateTaken")
      dateStr == IF dated
                 THEN NumToStr(date.year) \o Pad2(date.month + 1) \o Pad2(date.date)
                 ELSE <<"N", "o", "D", "a", "t", "e">>
      r0 == ReplaceAll(template, Braced(N_date), dateStr)
      r1 == IF ~dated THEN r0
            ELSE ReplaceAll(ReplaceAll(ReplaceAll(ReplaceAll(ReplaceAll(ReplaceAll(ReplaceAll(r0,
                   Braced(N_YYYY), NumToStr(date.year)),
                   Braced(N_YY), SliceLast2(NumToStr(date.year))),
                   Braced(N_MM), Pad2(date.month + 1)),
                   Braced(N_DD), Pad2(date.date)),
                   Braced(N_HH), Pad2(date.hours)),
                   Braced(N_mm), Pad2(date.minutes)),
                   Braced(N_ss), Pad2(date.seconds))
      r2 == ReplaceAll(r1, Braced(N_make), OrElse(SanitizedText(exif, "make"),
                                                  <<"U", "n", "k", "n", "o", "w", "n">>))
      r3 == ReplaceAll(r2, Braced(N_model), OrElse(SanitizedText(exif, "model"),
                                                   <<"U", "n", "k", "n", "o", "w", "n">>))
      r4 == ReplaceAll(r3, Braced(N_iso), OrElse(SanitizedNumber(exif, "iso"), <<"0">>))
      r5 == ReplaceAll(r4, Braced(N_focal), OrElse(SanitizedNumber(exif, "focalLength"), <<"0">>))
      r6 == ReplaceAll(r5, Braced(N_aperture), OrElse(SanitizedNumber(exif, "fNumber"), <<"0">>))
      shutterSpeed == IF Has(exif, "exposureTime") THEN ShutterArgument(exif.exposureTime)
                      ELSE [nan |-> FALSE, num |-> 0, den |-> 1]
      r7 == ReplaceAll(r6, Braced(N_shutter),
                       IF ~shutterSpeed.nan /\ shutterSpeed.num > 0
                       THEN NumberToString(shutterSpeed) ELSE <<"0">>)
      r8 == ReplaceAll(r7, Braced(N_counter), PadStart(NumToStr(counter), 3))
      r9 == ApplyCounterPadded(r8, counter, 1)
  IN  CollapseRuns(CollapseRuns(r9, {"_"}, "_"), {"-"}, "-")

\* generateTemplateWarnings of the page
generateTemplateWarnings(template, exif) ==
  (IF Includes(template, Braced(N_make)) /\ ~Truthy(exif, "make")
   THEN <<Warning("Camera make not available in EXIF data")>> ELSE <<>>)
  \o (IF Includes(template, Braced(N_model)) /\ ~Truthy(exif, "model")
      THEN <<Warning("Camera model not available in EXIF data")>> ELSE <<>>)
  \o (IF Includes(template, Braced(N_focal)) /\ ~Truthy(exif, "focalLength")
      THEN <<Warning("Focal length not available in EXIF data")>> ELSE <<>>)
  \o (IF Includes(template, Braced(N_aperture)) /\ ~Truthy(exif, "fNumber")
      THEN <<Warning("Aperture not available in EXIF data")>> ELSE <<>>)
  \o (IF Includes(template, Braced(N_iso)) /\ ~Truthy(exif, "iso")
      THEN <<Warning("ISO not available in EXIF data")>> ELSE <<>>)
  \o (IF (Includes(template, Braced(N_lat)) \/ Includes(template, Braced(N_lng))
            \/ Includes(template, Braced(N_gps))) /\ ~Has(exif, "gps")
      THEN <<Warning("GPS coordinates not available")>> ELSE <<>>)

\* selectedPhotos.forEach of updatePreviews from position i on: a selected
\* photo with metadata gets its new name and takes a counter value
RECURSIVE PreviewFrom(_, _, _, _)
PreviewFrom(ps, i, counter, template) ==
  IF i > Len(ps) THEN ps
  ELSE IF ps[i].selected /\ ~ps[i].exif.isNull
       THEN PreviewFrom([ps EXCEPT
                           ![i].newFileName =
                              applyTemplate(template, ps[i].exif, counter, ps[i].file.name)
                              \o <<".">> \o PageFileExtension(ps[i].file.name),
                           ![i].warnings = generateTemplateWarnings(template, ps[i].exif)],
                        i + 1, counter + 1, template)
       ELSE PreviewFrom(ps, i + 1, counter, template)

updatePreviews(ps, template) == PreviewFrom(ps, 1, 1, template)

\* $: if (currentTemplate && selectedPhotos.length > 0) { updatePreviews() }
ReactivePreviews(ps, template) ==
  IF template # <<>> /\ \E i \in 1..Len(ps) : ps[i].selected
  THEN updatePreviews(ps, template) ELSE ps

\* selectedPhotos
SelectedPhotos(ps) == SelectSeq(ps, LAMBDA photo : photo.selected)

\* handleDownload: exifDataMap.set(photo.file.name, photo.metadata.exif) for
\* the selected photos that have metadata, from position i on
RECURSIVE ExifMapFrom(_, _, _)
ExifMapFrom(selected, i, map) ==
  IF i > Len(selected) THEN map
  ELSE IF ~selected[i].exif.isNull
       THEN ExifMapFrom(selected, i + 1, MapSet(map, selected[i].file.name, selected[i].exif))
       ELSE ExifMapFrom(selected, i + 1, map)

\* The longest list of photos on the page
MaxPhotos == 2

\* What was uploaded: files named shot.jpg or without extension; metadata
\* none, complete, or the date only
PageNames == {S_shotjpg, S_noext}
PageExifs == {NullExif, FullExif, ExifWith({"dateTaken"})}
PageTemplates == {T_default, T_original, T_make \o <<"_">> \o Braced(N_counter), T_fixed}

\* The lists of photos after upload and extraction, none selected
PagePhotos ==
  UNION { { [i \in 1..n |-> [NewPhoto(i, [id |-> i, name |-> names[i]])
                               EXCEPT !.exif = exifs[i]]] :
              names \in [1..n -> PageNames], exifs \in [1..n -> PageExifs] } :
          n \in 1..MaxPhotos }

InitPreview ==
  /\ lastIndex = 0
  /\ now = 0
  /\ op = "none"
  /\ currentTemplate \in PageTemplates
  /\ argExif = NullExif
  /\ argName = <<>>
  /\ argOptions = NoOptions
  /\ ret = NoResult
  /\ history = <<>>
  /\ argValue = <<>>
  /\ IdleArchive
  /\ IdleConflict
  /\ IdleBatch
  /\ photos \in PagePhotos
  /\ totalProcessed = 0
  /\ inflight = <<>>

\* The user ticks or unticks the checkbox of a photo; the reactive statement
\* of the page then runs updatePreviews
ToggleSelection ==
  /\ \E i \in 1..Len(photos) :
       photos' = ReactivePreviews([photos EXCEPT ![i].selected = ~@], currentTemplate)
  /\ op' = "toggleSelection"
  /\ UNCHANGED <<lastIndex, now, currentTemplate, argExif, argName, argOptions, ret,
                 batchVars, history, argValue, totalProcessed, inflight, conflict,
                 archiveVars>>

\* handleDownload up to its call of createZip: the metadata map, the selected
\* files, batchRename
HandleDownload ==
  /\ Len(history) < MaxHistory
  /\ \E i \in 1..Len(photos) : photos[i].selected
  /\ Len(currentTemplate) > 0
  /\ \E selected \in {SelectedPhotos(photos)} :
       /\ files' = [i \in 1..Len(selected) |-> selected[i].file]
       /\ exifDataMap' = ExifMapFrom(selected, 1, <<>>)
  /\ argOptions' = NoOptions
  /\ \E st \in {batchRename(files', currentTemplate, exifDataMap', NoOptions, now)} :
       /\ usedFilenames' = st.usedFilenames
       /\ results' = st.results
       /\ calls' = st.calls
  /\ index' = Len(files')
  /\ pc' = "done"
  /\ op' = "handleDownload"
  /\ ret' = [results |-> results']
  /\ lastIndex' = 0
  /\ history' = Append(history, [op |-> "batchRename", template |-> currentTemplate])
  /\ UNCHANGED <<now, currentTemplate, argExif, argName, run, firstResults, argValue,
                 pageVars, conflict, archiveVars>>

NextPreview == ToggleSelection \/ HandleDownload

SpecPreview == InitPreview /\ [][NextPreview]_vars

\* C28: when handleDownload has renamed the selected photos, the name the
\* preview shows for each of them (set by updatePreviews for this selection
\* and template) is the name batchRename gave its file, for photos with and
\* without metadata alike.
C28_PreviewIsDownloadName ==
  op = "handleDownload" =>
    \A i \in 1..Len(photos) :
      photos[i].selected =>
        photos[i].newFileName = MapGet(results, photos[i].file).filename

-----------------------------------------------------------------------------
(* The usage limit: handleFilesAdded with the usage store                  *)

\* MAX_FREE_PHOTOS of the usage store
MAX_FREE_PHOTOS == 1000

\* The most calls of handleFilesAdded, and the most files of one call
MaxUploads == 2
MaxDrop == 2

\* getUsageStats().remaining, limits enforced
Remaining(total) == IF MAX_FREE_PHOTOS - total > 0 THEN MAX_FREE_PHOTOS - total ELSE 0

\* filesStore.addFiles: the new photos after the old ones
addFiles(ps, fs) == ps \o [k \in 1..Len(fs) |-> NewPhoto(Len(ps) + k, fs[k])]

\* $filesStore.photos.find(p => p.file === file), then setExifData on it
setExifDataOf(ps, file, exif) ==
  IF \E i \in 1..Len(ps) : ps[i].file = file
  THEN [ps EXCEPT ![CHOOSE i \in 1..Len(ps) :
                      ps[i].file = file /\ \A j \in 1..(i - 1) : ps[j].file # file].exif = exif]
  ELSE ps

\* The list without its element at position c
Without(list, c) == SubSeq(list, 1, c - 1) \o SubSeq(list, c + 1, Len(list))

\* The files of one drop: new File objects, all named shot.jpg
Dropped(ps, n) == [k \in 1..n |-> [id |-> Len(ps) + k, name |-> S_shotjpg]]

InitUsage ==
  /\ lastIndex = 0
  /\ now = 0
  /\ op = "none"
  /\ currentTemplate = T_default
  /\ argExif = NullExif
  /\ argName = <<>>
  /\ argOptions = NoOptions
  /\ ret = NoResult
  /\ history = <<>>
  /\ argValue = <<>>
  /\ IdleArchive
  /\ IdleConflict
  /\ IdleBatch
  /\ photos = <<>>
  /\ totalProcessed \in {MAX_FREE_PHOTOS - r : r \in 0..MaxDrop}
  /\ inflight = <<>>

usageFrame == <<lastIndex, now, currentTemplate, argExif, argName, argOptions, ret,
                batchVars, argValue, conflict, archiveVars>>

\* handleFilesAdded returns at one of its two checks of the allowance
HandleFilesAddedRefused ==
  /\ Len(history) + Len(inflight) < MaxUploads
  /\ \E n \in 1..MaxDrop :
       Remaining(totalProcessed) = 0 \/ n > Remaining(totalProcessed)
  /\ op' = "handleFilesAdded"
  /\ history' = Append(history, [op |-> "handleFilesAdded", template |-> currentTemplate])
  /\ UNCHANGED <<usageFrame, pageVars>>

\* handleFilesAdded passes the checks, adds the files and awaits the first
\* extractExif
HandleFilesAddedAccepted ==
  /\ Len(history) + Len(inflight) < MaxUploads
  /\ \E n \in 1..MaxDrop :
       /\ Remaining(totalProcessed) # 0
       /\ n <= Remaining(totalProcessed)
       /\ photos' = addFiles(photos, Dropped(photos, n))
       /\ inflight' = Append(inflight, [files |-> Dropped(photos, n), next |-> 1])
  /\ op' = "handleFilesAdded"
  /\ UNCHANGED <<usageFrame, history, totalProcessed>>

\* extractExif of the awaited file resolves: the metadata is stored; after the
\* last file the usage is recorded, updatePreviews runs and the call returns
ExtractExifResolves ==
  /\ \E c \in 1..Len(inflight), exifData \in {NullExif, FullExif} :
       \E call \in {inflight[c]} :
         \E stored \in {setExifDataOf(photos, call.files[call.next], exifData)} :
           IF call.next < Len(call.files)
           THEN /\ photos' = stored
                /\ inflight' = [inflight EXCEPT ![c].next = @ + 1]
                /\ UNCHANGED <<totalProcessed, history>>
           ELSE /\ totalProcessed' = totalProcessed + Len(call.files)
                /\ photos' = updatePreviews(stored, currentTemplate)
                /\ inflight' = Without(inflight, c)
                /\ history' = Append(history, [op |-> "handleFilesAdded",
                                               template |-> currentTemplate])
  /\ op' = "extractExif"
  /\ UNCHANGED usageFrame

\* extractExif of the awaited file rejects: the catch logs, no usage is
\* recorded, updatePreviews runs and the call returns
ExtractExifRejects ==
  /\ \E c \in 1..Len(inflight) :
       /\ photos' = updatePreviews(photos, currentTemplate)
       /\ inflight' = Without(inflight, c)
  /\ history' = Append(history, [op |-> "handleFilesAdded", template |-> currentTemplate])
  /\ op' = "extractExif"
  /\ UNCHANGED <<usageFrame, totalProcessed>>

NextUsage ==
  \/ HandleFilesAddedRefused
  \/ HandleFilesAddedAccepted
  \/ ExtractExifResolves
  \/ ExtractExifRejects

SpecUsage == InitUsage /\ [][NextUsage]_vars

\* C30: whatever calls of handleFilesAdded were made and however their
\* extractions interleave, the recorded totalProcessed is at most
\* MAX_FREE_PHOTOS and the remaining allowance getUsageStats reports is not
\* negative.
C30_UsageStaysWithinLimit ==
  /\ totalProcessed <= MAX_FREE_PHOTOS
  /\ Remaining(totalProcessed) >= 0

=============================================================================
